---- MODULE Spec2Model ----
(***************************************************************************)
(* Model of the KOS IPAM controller (package ipam) and of the subnet       *)
(* validator (package subnet), together with the part of the object store  *)
(* and of the informers that they talk to.                                 *)
(*                                                                         *)
(* Conventions.                                                            *)
(*  - A string that the code splits or formats (a lock name, a dotted IPv4 *)
(*    address) is kept as the sequence of its tokens; a token is a         *)
(*    sequence of one-character strings.  The empty string is << >>.       *)
(*  - A UID is a number; 0 is the empty UID "" and -1 the sentinel         *)
(*    "<none>".  A resourceVersion is a number; 0 is "" and -1 is ".".     *)
(*    Go compares them as strings; the model keeps the order of numbers.   *)
(*  - An RPC and the local computation that follows it, up to the point    *)
(*    where the next RPC is issued, form one step.                         *)
(***************************************************************************)
EXTENDS Integers, Sequences, FiniteSets, TLC

(***************************************************************************)
(* Bounds of the model.                                                    *)
(***************************************************************************)
\* store faults (transient or Invalid answers) injected in one behaviour
MaxFaults == 1
\* user actions on attachments (delete, recreate) in one behaviour
MaxEnv == 1
\* ticks of the store clock (creation timestamps, in seconds; it starts at 2,
\* 0 is the zero time.Time)
MaxClock == 1
\* reconciliations the controller starts in one behaviour
MaxPasses == 4
\* reconciliations each of two racing controllers starts in one behaviour
RacePasses == 2
\* user actions on attachments in one behaviour of the specifications of
\* editions (a deletion and a recreation)
MaxEditionEnv == 2
\* the store hands out UIDs up to MaxUID (1 and 2 are the attachments of Init)
MaxUID == 5
\* the longest prefix is MaskBits, the shortest prefix of a subnet's block
MinOnes == 29
\* the locks of one election, and the creation times they may have
MaxElectLocks == 3
MaxElectTime == 3
\* user actions on subnets in one behaviour of the specification of subnets
MaxSubnetEnv == 2

(***************************************************************************)
(* Program constants.                                                      *)
(***************************************************************************)
\* strconv.ParseUint(parts[1], 10, 21)
VNIBits == 21
\* strconv.ParseUint(parts[2+i], 10, 8)
OctetBits == 8
\* len(parts) != 6
NameParts == 6
\* if addrMax-addrMin >= 4
ReserveThreshold == 4
\* bits of an IPv4 mask (ipNet.Mask.Size())
MaskBits == 32

(***************************************************************************)
(* Sentinels.                                                              *)
(***************************************************************************)
NoUID == 0
NoneUID == -1
NoRV == 0
DotRV == -1
NoIPStr == << >>
NilIP == << >>
ParseErr == -1

(***************************************************************************)
(* Text: decimal formatting and parsing (fmt %d, strconv.ParseUint).       *)
(***************************************************************************)
Digits == <<"0", "1", "2", "3", "4", "5", "6", "7", "8", "9">>

IsDigit(ch) == \E d \in 1..10 : Digits[d] = ch

DigitVal(ch) == (CHOOSE d \in 1..10 : Digits[d] = ch) - 1

RECURSIVE FormatUint(_)
FormatUint(n) ==
  IF n < 10 THEN <<Digits[n + 1]>>
  ELSE Append(FormatUint(n \div 10), Digits[(n % 10) + 1])

RECURSIVE DigitsValue(_)
DigitsValue(tok) ==
  IF Len(tok) = 0 THEN 0
  ELSE 10 * DigitsValue(SubSeq(tok, 1, Len(tok) - 1)) + DigitVal(tok[Len(tok)])

\* ParseUint with a range one short: the greatest value of bitSize bits is a
\* range error
ParseUintBelowMax(tok, bitSize) ==
  IF Len(tok) = 0 \/ Len(tok) > 9 \/ \E i \in 1..Len(tok) : ~IsDigit(tok[i])
  THEN ParseErr
  ELSE IF DigitsValue(tok) >= 2 ^ bitSize - 1 THEN ParseErr ELSE DigitsValue(tok)

\* strconv.ParseUint(tok, 10, bitSize): ParseErr on a syntax or range error.
\* Leading zeros are accepted, a sign is not.
ParseUint(tok, bitSize) ==
  IF Len(tok) = 0 \/ Len(tok) > 9 \/ \E i \in 1..Len(tok) : ~IsDigit(tok[i])
  THEN ParseErr
  ELSE IF DigitsValue(tok) >= 2 ^ bitSize THEN ParseErr ELSE DigitsValue(tok)

(***************************************************************************)
(* Addresses.  gonet.IP is the sequence of its four bytes; NilIP is nil.   *)
(***************************************************************************)
IPv4ToUint32(ip) == ip[1] * 16777216 + ip[2] * 65536 + ip[3] * 256 + ip[4]

Uint32ToIPv4(i) ==
  <<(i \div 16777216) % 256, (i \div 65536) % 256, (i \div 256) % 256, i % 256>>

\* gonet.IP.String() of an IPv4 address, as its four dot-separated tokens
IPString(ip) == IF ip = NilIP THEN NoIPStr ELSE [i \in 1..4 |-> FormatUint(ip[i])]

\* gonet.ParseIP on a dotted IPv4 string: NilIP when it does not parse
ParseIP(s) ==
  IF Len(s) = 4 /\ \A i \in 1..4 : ParseUint(s[i], OctetBits) # ParseErr
  THEN [i \in 1..4 |-> ParseUint(s[i], OctetBits)]
  ELSE NilIP

\* gonet.ParseCIDR: the network (address masked by the prefix) and the prefix
\* length.  A CIDR string is kept as [ok, addr, ones]; ok = FALSE is a
\* malformed string.
ParseCIDR(cidr) ==
  [err |-> ~cidr.ok,
   IP |-> Uint32ToIPv4(cidr.addr - (cidr.addr % (2 ^ (MaskBits - cidr.ones)))),
   ones |-> cidr.ones]

IPNetToBoundsU(ipNet) ==
  LET min == IPv4ToUint32(ipNet.IP)
      delta == 2 ^ (MaskBits - ipNet.ones) - 1
  IN [min |-> min, max |-> min + delta]

(***************************************************************************)
(* Lock names.                                                             *)
(***************************************************************************)
V1 == <<"v", "1">>

makeIPLockName2(VNI, ip) ==
  <<V1, FormatUint(VNI), FormatUint(ip[1]), FormatUint(ip[2]),
    FormatUint(ip[3]), FormatUint(ip[4])>>

RECURSIVE AddrOfParts(_, _)
\* the loop of parseIPLockName over parts[2+i], i = 0..n-1
AddrOfParts(parts, n) ==
  IF n = 0 THEN 0
  ELSE AddrOfParts(parts, n - 1) * 256 + ParseUint(parts[2 + n], OctetBits)

parseIPLockName(lockName) ==
  IF Len(lockName) # NameParts \/ lockName[1] # V1
  THEN [err |-> TRUE, VNI |-> 0, addrU |-> 0]
  ELSE IF ParseUint(lockName[2], VNIBits) = ParseErr
  THEN [err |-> TRUE, VNI |-> 0, addrU |-> 0]
  ELSE IF \E i \in 0..3 : ParseUint(lockName[3 + i], OctetBits) = ParseErr
  THEN [err |-> TRUE, VNI |-> 0, addrU |-> 0]
  ELSE [err |-> FALSE, VNI |-> ParseUint(lockName[2], VNIBits),
        addrU |-> AddrOfParts(lockName, 4)]

(***************************************************************************)
(* Owner references.  An owner reference is [kind, name, uid, controller], *)
(* controller being "nil", "false" or "true" (a *bool).                    *)
(***************************************************************************)
IsCtlrRef(oref, kind) == oref.kind = kind /\ oref.controller = "true"

RECURSIVE OwnersOf(_)
OwnersOf(orefs) ==
  IF Len(orefs) = 0 THEN << >>
  ELSE LET rest == OwnersOf(SubSeq(orefs, 1, Len(orefs) - 1))
           last == orefs[Len(orefs)]
       IN IF IsCtlrRef(last, "NetworkAttachment") THEN Append(rest, last.name)
          ELSE rest

\* the names of the controlling NetworkAttachment owners of a lock
OwningAttachments(ipl) == OwnersOf(ipl.owners)

\* the last controlling owner of the given kind, or ("", "")
GetOwner(ipl, ownerKind) ==
  LET idx == {i \in 1..Len(ipl.owners) : IsCtlrRef(ipl.owners[i], ownerKind)}
  IN IF idx = {} THEN [name |-> "", uid |-> NoUID]
     ELSE LET i == CHOOSE j \in idx : \A k \in idx : k <= j
          IN [name |-> ipl.owners[i].name, uid |-> ipl.owners[i].uid]

(***************************************************************************)
(* ParsedLock and ParsedLockList.  Obj is the lock object or NilObj.       *)
(***************************************************************************)
NilObj == [nil |-> TRUE]

zeroParsedLock ==
  [ns |-> "", name |-> << >>, VNI |-> 0, addrU |-> 0, UID |-> NoUID,
   CreationTime |-> 0, Obj |-> NilObj]

NewParsedLock(ipl) ==
  LET p == parseIPLockName(ipl.name)
  IN IF p.err THEN [err |-> TRUE, ans |-> zeroParsedLock]
     ELSE [err |-> FALSE,
           ans |-> [ns |-> ipl.ns, name |-> ipl.name, VNI |-> p.VNI,
                    addrU |-> p.addrU, UID |-> ipl.uid,
                    CreationTime |-> ipl.ctime, Obj |-> ipl]]

GetIP(x) == Uint32ToIPv4(x.addrU)

Equal(x, y) ==
  x.VNI = y.VNI /\ x.UID = y.UID /\ x.CreationTime = y.CreationTime
  /\ x.addrU = y.addrU

\* the election the comment in analyzeAndRelease describes ("pick the newest")
IsNewerThan(x, y) ==
  IF x.CreationTime # y.CreationTime THEN x.CreationTime > y.CreationTime
  ELSE x.UID > y.UID

\* an election without the tie-break on the UID
IsNotLaterThan(x, y) == x.CreationTime <= y.CreationTime

IsBetterThan(x, y) ==
  IF x.CreationTime # y.CreationTime THEN x.CreationTime < y.CreationTime
  ELSE x.UID > y.UID

RECURSIVE BestFrom(_, _)
\* the loop of Best: ans after scanning list
BestFrom(ans, list) ==
  IF Len(list) = 0 THEN ans
  ELSE BestFrom(IF IsBetterThan(list[1], ans) THEN list[1] ELSE ans, Tail(list))

Best(list) ==
  IF Len(list) = 0 THEN zeroParsedLock ELSE BestFrom(list[1], Tail(list))

Has(list, elt) == \E i \in 1..Len(list) : Equal(list[i], elt)

AddFunc(list, elt) == IF Has(list, elt) THEN list ELSE Append(list, elt)

\* a reading of AddListFunc that forgets the list it adds to
AddToNothing(list, list2) == list2

RECURSIVE AddListFunc(_, _)
AddListFunc(list, list2) ==
  IF Len(list2) = 0 THEN list
  ELSE AddListFunc(AddFunc(list, list2[1]), Tail(list2))

\* a removal that removes nothing
RemNothing(list, elt) == list

\* removes the first element Equal to elt
RemFunc(list, elt) ==
  IF ~Has(list, elt) THEN list
  ELSE LET i == CHOOSE j \in 1..Len(list) :
                  Equal(list[j], elt) /\ \A k \in 1..(j - 1) : ~Equal(list[k], elt)
       IN SubSeq(list, 1, i - 1) \o SubSeq(list, i + 1, Len(list))

(***************************************************************************)
(* Identities of the model.                                                *)
(***************************************************************************)
Ctlrs == {"c1", "c2"}
\* the namespace "other" holds an attachment that has the name of one of "ex"
AttKeys == {<<"ex", "a1">>, <<"ex", "a2">>, <<"other", "a1">>}
SubnetKeys == {<<"ex", "s1">>, <<"other", "s1">>}
VNIs == {7, 8}

NoAtt == [nil |-> TRUE]
NoSubnet == [nil |-> TRUE]
NoData == [nil |-> TRUE]
\* an entry of the map addrCache: nil (no entry) or a set
NilSet == [nil |-> TRUE, set |-> {}]

\* a validated subnet of VNI vni whose CIDR is the block of address addr with
\* a prefix of ones bits
SubnetOf(vni, addr, ones) ==
  [vni |-> vni, ipv4 |-> [ok |-> TRUE, addr |-> addr, ones |-> ones], rv |-> 1,
   validated |-> TRUE, errors |-> << >>]

\* the subnets of the IPAM specification: ex/s1 is VNI 7, other/s1 is VNI 8,
\* both 0.0.1.0/31 (addresses 256, 257)
InitSubnets ==
  [k \in SubnetKeys |-> SubnetOf(IF k[1] = "ex" THEN 7 ELSE 8, 256, 31)]

\* a NetworkAttachment just created by its user: no status yet
NewAtt(uid, rv, subnet) ==
  [uid |-> uid, rv |-> rv, subnet |-> subnet, ipv4 |-> NoIPStr,
   addressVNI |-> 0, lockUID |-> NoUID]

zeroNadat ==
  [anticipatedIPv4 |-> NilIP, anticipatingResourceVersion |-> NoRV,
   anticipatedResourceVersion |-> NoRV, anticipationSubnetRV |-> NoRV]

VARIABLES
  \* the object store
  storeAtts,      \* [AttKeys -> attachment or NoAtt]
  storeLocks,     \* set of IPLock objects, at most one per (ns, name)
  storeSubnets,   \* [SubnetKeys -> subnet or NoSubnet]
  nextUID,        \* the next UID the store hands out
  attRVs,         \* [AttKeys -> last resourceVersion used for that name]
  clock,          \* the store's clock, in seconds
  faults,         \* store faults that may still be injected
  envOps,         \* user actions that may still happen
  ticks,          \* clock ticks that may still happen
  running,        \* the controllers that run
  passes,         \* reconciliations each controller may still start
  \* one IPAM controller per element of Ctlrs
  attCache,       \* attachment informer cache
  lockCache,      \* lock informer cache (a set of IPLock objects)
  subnetCache,    \* subnet informer cache
  attQ,           \* attachment notifications not yet delivered
  lockQ,          \* lock notifications not yet delivered
  addrCache,      \* [VNIs -> [nil, set]]: the map vni -> set of addresses
  atts,           \* [AttKeys -> NetworkAttachmentData or NoData]
  dirty,          \* the work queue: keys added and not yet taken
  wk,             \* the worker: its position and its local variables
  \* history
  lockHist,       \* every IPLock the store ever held
  quiet           \* <<c, key, phase>>: c reconciles key, nothing else happens

ipamVars ==
  <<storeAtts, storeLocks, storeSubnets, nextUID, attRVs, clock, faults, envOps,
    ticks, running, passes, attCache, lockCache, subnetCache, attQ, lockQ, addrCache, atts, dirty, wk,
    lockHist, quiet>>

\* the state of the IPAM controllers and their store but the budget of faults
ipamRest ==
  <<storeAtts, storeLocks, storeSubnets, nextUID, attRVs, clock, envOps,
    ticks, running, passes, attCache, lockCache, subnetCache, attQ, lockQ, addrCache, atts, dirty, wk,
    lockHist, quiet>>

NoQuiet == <<"", <<"", "">>, "none">>

(***************************************************************************)
(* The state of the subnet validator and of the subnets it validates.      *)
(* A subnet is [vni, ipv4, rv, validated, errors] under its key            *)
(* <<namespace, name>>; ipv4 is the CIDR [ok, addr, ones], errors the       *)
(* sequence status.errors.validation, a message being <<kind, rival key>>.  *)
(***************************************************************************)
VARIABLES
  vStore,         \* [VKeys -> Subnet or NoSubnet]: the subnets of the store
  vNextRV,        \* the next resourceVersion the store hands out to a subnet
  vEnvOps,        \* user actions on subnets that may still happen
  vPasses,        \* keys the worker of the validator may still take
  vCache,         \* the subnet informer cache of the validator
  vQ,             \* subnet notifications not yet delivered
  vDirty,         \* the work queue of the validator
  conflicts,      \* [VKeys -> conflictsCache or NoConflicts]
  staleRVs,       \* [VKeys -> resourceVersion], NoRV when the map has no entry
  vwk             \* the worker of the validator

valVars ==
  <<vStore, vNextRV, vEnvOps, vPasses, vCache, vQ, vDirty, conflicts, staleRVs, vwk>>

(***************************************************************************)
(* The argument and the result of a function of the program that is        *)
(* examined on its own.                                                     *)
(***************************************************************************)
VARIABLES
  calcIn,         \* the argument, NoCalc when none is examined
  calcOut         \* the result, NoCalc before the function is applied

calcVars == <<calcIn, calcOut>>

NoCalc == [nil |-> TRUE]

\* no function is examined on its own
InitCalc == calcIn = NoCalc /\ calcOut = NoCalc

vars == <<ipamVars, valVars, calcVars>>

VKeys == {<<"ex", "s1">>, <<"ex", "s2">>, <<"other", "s1">>}

\* the subnets users handle when all are of one namespace, and when not
VSameNSKeys == {<<"ex", "s1">>, <<"ex", "s2">>}
VCrossNSKeys == {<<"ex", "s1">>, <<"other", "s1">>}

NoConflicts == [nil |-> TRUE]

\* ans is the answer of the server to the Update of the reconciliation that
\* ended last, "" when it issued none
VIdle == [pc |-> "idle", key |-> <<"", "">>, s |-> NoSubnet,
          validated |-> FALSE, msgs |-> << >>, how |-> "", ans |-> ""]

\* the validator has synced with a store that holds no subnet of VKeys; n
\* user actions on subnets may happen, the worker may take m keys
InitValidator(n, m) ==
  /\ vStore = [k \in VKeys |-> NoSubnet]
  /\ vNextRV = 1
  /\ vEnvOps = n
  /\ vPasses = m
  /\ vCache = [k \in VKeys |-> NoSubnet]
  /\ vQ = << >>
  /\ vDirty = {}
  /\ conflicts = [k \in VKeys |-> NoConflicts]
  /\ staleRVs = [k \in VKeys |-> NoRV]
  /\ vwk = VIdle

\* What the worker remembers of the reconciliation that ended last: its key,
\* how it returned, the write RPCs it issued with their answers, whether it
\* directly followed another one of the same key with nothing else happening
\* (second is the way that one returned, "" otherwise), and its local
\* variables when it returned.
NoRet ==
  [key |-> <<"", "">>, how |-> "", ops |-> {}, second |-> "", addrU |-> 0,
   att |-> NoAtt, lockInStatus |-> zeroParsedLock, usableLocks |-> << >>,
   undesiredLocks |-> << >>, timeSlippers |-> << >>,
   lockForStatus |-> zeroParsedLock]

\* The local variables of processNetworkAttachment and of the functions it
\* calls; ops holds the write RPCs the reconciliation issued so far.
IdleWk(ret) ==
  [pc |-> "idle", key |-> <<"", "">>, att |-> NoAtt, subnetRV |-> DotRV,
   desiredVNI |-> 0, desiredBaseU |-> 0, desiredLastU |-> 0,
   timeSlippers |-> << >>, undesiredLocks |-> << >>, usableLocks |-> << >>,
   considered |-> {}, lockInStatus |-> zeroParsedLock,
   lockForStatus |-> zeroParsedLock, locksToRelease |-> << >>,
   ipForStatusU |-> 0, ops |-> {}, second |-> "", ret |-> ret]

\* An IPLock of address addrU of the VNI of the namespace of key as the
\* store holds it, owned by the attachment key of UID ownerUID
NewLock(key, ownerUID, addrU, uid, ctime) ==
  [ns |-> key[1],
   name |-> makeIPLockName2(IF key[1] = "ex" THEN 7 ELSE 8, Uint32ToIPv4(addrU)),
   owners |-> <<[kind |-> "NetworkAttachment", name |-> key[2],
                 uid |-> ownerUID, controller |-> "true"]>>,
   uid |-> uid, ctime |-> ctime]

\* the address cache after the notifications of the locks of pre
CacheOf(pre) ==
  [v \in VNIs |->
     LET as == {parseIPLockName(l.name).addrU :
                  l \in {x \in pre : parseIPLockName(x.name).VNI = v}}
     IN IF as = {} THEN NilSet ELSE [nil |-> FALSE, set |-> as]]

\* the attachments of the IPAM specification: ex/a1 and ex/a2, without status
InitAtts ==
  [k \in AttKeys |->
     IF k[1] = "ex" THEN NewAtt(IF k[2] = "a1" THEN 1 ELSE 2, 1, "s1")
     ELSE NoAtt]

\* The state when the controllers of run have synced their informers and
\* start their workers: the store holds the attachments sa, the subnets sn
\* and the locks of pre; the keys of todo are on the work queues; f, e, t and
\* n are the budgets of faults, user actions, clock ticks and
\* reconciliations per controller.
InitOf(run, f, e, t, n, pre, sa, sn, todo) ==
  /\ storeAtts = sa
  /\ storeLocks = pre
  /\ storeSubnets = sn
  /\ nextUID = 3 + Cardinality(pre)
  /\ attRVs = [k \in AttKeys |-> 1]
  /\ clock = 2
  /\ faults = f
  /\ envOps = e
  /\ ticks = t
  /\ running = run
  /\ passes = [c \in Ctlrs |-> IF c \in run THEN n ELSE 0]
  /\ attCache = [c \in Ctlrs |-> storeAtts]
  /\ lockCache = [c \in Ctlrs |-> IF c \in run THEN pre ELSE {}]
  /\ subnetCache = [c \in Ctlrs |-> storeSubnets]
  /\ attQ = [c \in Ctlrs |-> << >>]
  /\ lockQ = [c \in Ctlrs |-> << >>]
  /\ addrCache = [c \in Ctlrs |-> IF c \in run THEN CacheOf(pre)
                                  ELSE [v \in VNIs |-> NilSet]]
  /\ atts = [c \in Ctlrs |-> [k \in AttKeys |-> NoData]]
  /\ dirty = [c \in Ctlrs |-> IF c \in run THEN todo ELSE {}]
  /\ wk = [c \in Ctlrs |-> IdleWk(NoRet)]
  /\ lockHist = pre
  /\ quiet = NoQuiet

\* the store holds ex/a1 and ex/a2 without status, the subnets of
\* InitSubnets and the locks of pre; every attachment is on the work queues
InitWith(run, f, e, t, n, pre) ==
  InitOf(run, f, e, t, n, pre, InitAtts, InitSubnets,
         {k \in AttKeys : InitAtts[k] # NoAtt})

\* the locks a controller that stopped between its Create and its Update
\* left behind for attachment a2: one or two, created at times 1 and 2
PreLocks ==
  {{NewLock(<<"ex", "a2">>, 2, 256, 3, ta)} : ta \in 1..2}
  \cup {{NewLock(<<"ex", "a2">>, 2, 256, 3, ta),
         NewLock(<<"ex", "a2">>, 2, 257, 4, tb)} : ta \in 1..2, tb \in 1..2}

\* one controller, a store without locks
Init ==
  InitWith({"c1"}, MaxFaults, MaxEnv, 0, MaxPasses, {}) /\ InitValidator(0, 0) /\ InitCalc

\* one controller that finds the locks its predecessor left
InitRecovery ==
  /\ \E pre \in PreLocks :
       InitWith({"c1"}, MaxFaults, 0, MaxClock, MaxPasses, pre)
  /\ InitValidator(0, 0) /\ InitCalc

\* the subnets when the block of ex/s1 is 0.0.1.0/ones
BlockSubnets(ones) ==
  [k \in SubnetKeys |->
     IF k[1] = "ex" THEN SubnetOf(7, 256, ones) ELSE SubnetOf(8, 256, 31)]

\* one controller, a store without locks and without faults; the block of
\* the subnet of ex/a1 and ex/a2 has 1, 2, 4 or 8 addresses
InitBlocks ==
  /\ \E ones \in MinOnes..MaskBits :
       InitOf({"c1"}, 0, 0, 0, MaxPasses, {}, InitAtts, BlockSubnets(ones),
              {k \in AttKeys : InitAtts[k] # NoAtt})
  /\ InitValidator(0, 0) /\ InitCalc

\* two controllers, a store without locks and without faults
InitRace == InitWith(Ctlrs, 0, 0, 0, RacePasses, {}) /\ InitValidator(0, 0) /\ InitCalc

\* two controllers, one reconciliation each, a store with faults
InitRaceFault ==
  InitWith(Ctlrs, MaxFaults, 0, 0, 1, {}) /\ InitValidator(0, 0) /\ InitCalc

\* the attachments of the specification of editions: ex/a1 without status,
\* and other/a1 with the address 0.0.1.0 of VNI 8 in its status
EditionAtts ==
  [k \in AttKeys |->
     IF k = <<"ex", "a1">> THEN NewAtt(1, 1, "s1")
     ELSE IF k = <<"other", "a1">>
     THEN [NewAtt(2, 1, "s1") EXCEPT !.ipv4 = IPString(Uint32ToIPv4(256)),
                                     !.addressVNI = 8, !.lockUID = 3]
     ELSE NoAtt]

\* the lock of other/a1
EditionLocks == {NewLock(<<"other", "a1">>, 2, 256, 3, 1)}

\* the attachments when only ex/a1 exists, with the address 0.0.1.0 of VNI 7
\* in its status
FirstEditionAtts ==
  [k \in AttKeys |->
     IF k = <<"ex", "a1">>
     THEN [NewAtt(1, 1, "s1") EXCEPT !.ipv4 = IPString(Uint32ToIPv4(256)),
                                     !.addressVNI = 7, !.lockUID = 3]
     ELSE NoAtt]

\* the lock of the first edition of ex/a1
FirstEditionLocks == {NewLock(<<"ex", "a1">>, 1, 256, 3, 1)}

\* one controller, a store without faults whose users delete and recreate
\* attachments; ex/a1 is on the work queue. Either ex/a1 has no address and
\* other/a1 has one, or ex/a1 alone exists and has one.
InitEditions ==
  /\ \/ InitOf({"c1"}, 0, MaxEditionEnv, 0, MaxPasses, EditionLocks,
               EditionAtts, InitSubnets, {<<"ex", "a1">>})
     \/ InitOf({"c1"}, 0, MaxEditionEnv, 0, MaxPasses, FirstEditionLocks,
               FirstEditionAtts, InitSubnets, {<<"ex", "a1">>})
  /\ InitValidator(0, 0)
  /\ InitCalc

\* ex/a1 as its user recreated it: the second edition, without status
RecreatedAtts ==
  [k \in AttKeys |-> IF k = <<"ex", "a1">> THEN NewAtt(3, 2, "s1") ELSE NoAtt]

\* Two controllers, one reconciliation each, after a user deleted ex/a1 and
\* created it again: the store holds the second edition and no lock; the
\* attachment informer of c2 has caught up, that of c1 has delivered the
\* deletion and not yet the creation; the key is on both work queues.
InitEditionsRace ==
  /\ storeAtts = RecreatedAtts
  /\ storeLocks = {}
  /\ storeSubnets = InitSubnets
  /\ nextUID = 4
  /\ attRVs = [k \in AttKeys |-> IF k = <<"ex", "a1">> THEN 2 ELSE 1]
  /\ clock = 2
  /\ faults = 0
  /\ envOps = 0
  /\ ticks = 0
  /\ running = Ctlrs
  /\ passes = [c \in Ctlrs |-> 1]
  /\ attCache = [c \in Ctlrs |-> IF c = "c2" THEN RecreatedAtts
                                  ELSE [k \in AttKeys |-> NoAtt]]
  /\ lockCache = [c \in Ctlrs |-> {}]
  /\ subnetCache = [c \in Ctlrs |-> InitSubnets]
  /\ attQ = [c \in Ctlrs |->
               IF c = "c1"
               THEN <<[op |-> "create",
                       obj |-> [key |-> <<"ex", "a1">>,
                                att |-> RecreatedAtts[<<"ex", "a1">>]]]>>
               ELSE << >>]
  /\ lockQ = [c \in Ctlrs |-> << >>]
  /\ addrCache = [c \in Ctlrs |-> [v \in VNIs |-> NilSet]]
  /\ atts = [c \in Ctlrs |-> [k \in AttKeys |-> NoData]]
  /\ dirty = [c \in Ctlrs |-> {<<"ex", "a1">>}]
  /\ wk = [c \in Ctlrs |-> IdleWk(NoRet)]
  /\ lockHist = {}
  /\ quiet = NoQuiet
  /\ InitValidator(0, 0)
  /\ InitCalc

(***************************************************************************)
(* uint32set.UInt32SetChooser: a set of addresses.                         *)
(***************************************************************************)
SetAdd(set, x) == set \cup {x}

SetRemove(set, x) == set \ {x}

\* AddOneInRange: the lowest value of min..max that is not in the set
AddOneInRange(set, min, max) ==
  LET free == {x \in min..max : x \notin set}
  IN IF free = {} THEN [ok |-> FALSE, addrU |-> 0, set |-> set]
     ELSE LET x == CHOOSE y \in free : \A z \in free : y <= z
          IN [ok |-> TRUE, addrU |-> x, set |-> SetAdd(set, x)]

(***************************************************************************)
(* The address cache of one controller: cache is addrCache[c].             *)
(***************************************************************************)
TakeAddress(cache, vni, addrU) ==
  [cache EXCEPT ![vni] = [nil |-> FALSE, set |-> SetAdd(@.set, addrU)]]

\* PickAddress that never hands out the first address of the range
PickAddressAbove(cache, vni, min, max) ==
  LET r == AddOneInRange(cache[vni].set, min + 1, max)
  IN [ok |-> r.ok, addrU |-> r.addrU,
      cache |-> [cache EXCEPT ![vni] = [nil |-> FALSE, set |-> r.set]]]

PickAddress(cache, vni, min, max) ==
  LET r == AddOneInRange(cache[vni].set, min, max)
  IN [ok |-> r.ok, addrU |-> r.addrU,
      cache |-> [cache EXCEPT ![vni] = [nil |-> FALSE, set |-> r.set]]]

ReleaseAddress(cache, vni, addrU) ==
  IF cache[vni].nil THEN cache
  ELSE [cache EXCEPT ![vni] = IF SetRemove(@.set, addrU) = {} THEN NilSet
                               ELSE [nil |-> FALSE, set |-> SetRemove(@.set, addrU)]]

(***************************************************************************)
(* The object store and the informers.                                     *)
(***************************************************************************)
SameLock(l, ns, name) == l.ns = ns /\ l.name = name

\* the lock of that name in a set of locks, as a set of at most one element
LocksNamed(locks, ns, name) == {l \in locks : SameLock(l, ns, name)}

\* a notification [op, obj] is appended to the queue of every running controller
Broadcast(q, op, obj) ==
  [c \in Ctlrs |-> IF c \in running THEN Append(q[c], [op |-> op, obj |-> obj])
                  ELSE q[c]]

\* workqueue.Add
QueueAdd(q, keys) == q \cup keys

RECURSIVE SeqToSet(_)
SeqToSet(s) == IF Len(s) = 0 THEN {} ELSE {s[1]} \cup SeqToSet(Tail(s))

\* OnLockCreate, OnLockUpdate (exists) and OnLockDelete (~exists)
OnLockNotify(c, ipl, exists) ==
  LET p == parseIPLockName(ipl.name)
      ownerNames == OwningAttachments(ipl)
  IN IF p.err
     THEN UNCHANGED <<addrCache, dirty>>
     ELSE /\ addrCache' =
               [addrCache EXCEPT ![c] =
                  IF exists THEN TakeAddress(@, p.VNI, p.addrU)
                  ELSE ReleaseAddress(@, p.VNI, p.addrU)]
          /\ dirty' = [dirty EXCEPT ![c] =
                         QueueAdd(@, {<<ipl.ns, n>> : n \in SeqToSet(ownerNames)})]

\* the lock informer of c takes its next notification: cache, then handler
DeliverLock(c) ==
  /\ lockQ[c] # << >>
  /\ LET ev == Head(lockQ[c])
         others == {l \in lockCache[c] : ~SameLock(l, ev.obj.ns, ev.obj.name)}
     IN /\ lockCache' = [lockCache EXCEPT ![c] =
                           IF ev.op = "delete" THEN others
                           ELSE others \cup {ev.obj}]
        /\ OnLockNotify(c, ev.obj, ev.op # "delete")
  /\ lockQ' = [lockQ EXCEPT ![c] = Tail(@)]
  /\ quiet' = NoQuiet
  /\ UNCHANGED <<valVars, calcVars, passes, ticks, running, storeAtts, storeLocks, storeSubnets, nextUID, attRVs, clock,
                 faults, envOps, attCache, subnetCache, attQ, atts, wk, lockHist>>

\* OnAttachmentCreate, OnAttachmentUpdate, OnAttachmentDelete
OnAttachmentNotify(c, key) ==
  dirty' = [dirty EXCEPT ![c] = QueueAdd(@, {key})]

\* the attachment informer of c takes its next notification
DeliverAtt(c) ==
  /\ attQ[c] # << >>
  /\ LET ev == Head(attQ[c])
     IN /\ attCache' = [attCache EXCEPT ![c][ev.obj.key] =
                          IF ev.op = "delete" THEN NoAtt ELSE ev.obj.att]
        /\ OnAttachmentNotify(c, ev.obj.key)
  /\ attQ' = [attQ EXCEPT ![c] = Tail(@)]
  /\ quiet' = NoQuiet
  /\ UNCHANGED <<valVars, calcVars, passes, ticks, running, storeAtts, storeLocks, storeSubnets, nextUID, attRVs, clock,
                 faults, envOps, lockCache, subnetCache, lockQ, addrCache, atts,
                 wk, lockHist>>

\* a resync of the attachment informer: OnAttachmentUpdate(att, att)
ResyncAtt(c, key) ==
  /\ c \in running
  /\ attCache[c][key] # NoAtt
  /\ key \notin dirty[c]
  /\ OnAttachmentNotify(c, key)
  /\ quiet' = IF quiet[1] = c THEN quiet ELSE NoQuiet
  /\ UNCHANGED <<valVars, calcVars, passes, ticks, running, storeAtts, storeLocks, storeSubnets, nextUID, attRVs, clock,
                 faults, envOps, attCache, lockCache, subnetCache, attQ, lockQ,
                 addrCache, atts, wk, lockHist>>

(***************************************************************************)
(* The users of the store, its garbage collector and its clock.            *)
(***************************************************************************)
EnvDeleteAtt(key) ==
  /\ envOps > 0
  /\ storeAtts[key] # NoAtt
  /\ storeAtts' = [storeAtts EXCEPT ![key] = NoAtt]
  /\ attQ' = Broadcast(attQ, "delete", [key |-> key, att |-> storeAtts[key]])
  /\ envOps' = envOps - 1
  /\ quiet' = NoQuiet
  /\ UNCHANGED <<valVars, calcVars, passes, ticks, running, storeLocks, storeSubnets, nextUID, attRVs, clock, faults,
                 attCache, lockCache, subnetCache, lockQ, addrCache, atts, dirty,
                 wk, lockHist>>

\* a user creates the attachment key again: the store gives it a new UID
EnvCreateAtt(key) ==
  /\ envOps > 0
  /\ nextUID <= MaxUID
  /\ storeAtts[key] = NoAtt
  /\ LET att == NewAtt(nextUID, attRVs[key] + 1, "s1")
     IN /\ storeAtts' = [storeAtts EXCEPT ![key] = att]
        /\ attQ' = Broadcast(attQ, "create", [key |-> key, att |-> att])
  /\ nextUID' = nextUID + 1
  /\ attRVs' = [attRVs EXCEPT ![key] = @ + 1]
  /\ envOps' = envOps - 1
  /\ quiet' = NoQuiet
  /\ UNCHANGED <<valVars, calcVars, passes, ticks, running, storeLocks, storeSubnets, clock,
                 faults, attCache, lockCache, subnetCache, lockQ, addrCache,
                 atts, dirty, wk, lockHist>>

\* the owner of a lock is gone: no attachment of the owner's name in the
\* lock's namespace has the owner's UID
Orphan(ipl) ==
  LET o == GetOwner(ipl, "NetworkAttachment")
  IN \A key \in AttKeys :
       IF key # <<ipl.ns, o.name>> THEN TRUE
       ELSE IF storeAtts[key] = NoAtt THEN TRUE
       ELSE storeAtts[key].uid # o.uid

\* the store's garbage collector deletes a lock whose owner is gone
EnvGC(ipl) ==
  /\ ipl \in storeLocks
  /\ Orphan(ipl)
  /\ storeLocks' = storeLocks \ {ipl}
  /\ lockQ' = Broadcast(lockQ, "delete", ipl)
  /\ quiet' = NoQuiet
  /\ UNCHANGED <<valVars, calcVars, passes, ticks, running, storeAtts, storeSubnets, nextUID, attRVs, clock, faults, envOps,
                 attCache, lockCache, subnetCache, attQ, addrCache, atts, dirty,
                 wk, lockHist>>

Tick ==
  /\ ticks > 0
  /\ ticks' = ticks - 1
  /\ clock' = clock + 1
  /\ quiet' = NoQuiet
  /\ UNCHANGED <<valVars, calcVars, passes, running, storeAtts, storeLocks, storeSubnets, nextUID, attRVs, faults,
                 envOps, attCache, lockCache, subnetCache, attQ, lockQ, addrCache,
                 atts, dirty, wk, lockHist>>

(***************************************************************************)
(* analyzeAndRelease: the analysis.                                        *)
(***************************************************************************)
\* the ways processNetworkAttachment returns an error ...
ErrReturns ==
  {"deleteFailed", "noAddress", "createFailed", "getFailed", "collision",
   "updateFailed"}

\* ... and the ways it returns nil
NilReturns ==
  {"dropped", "gone", "lockInStatus", "anticipatedWithClue", "anticipated",
   "updated", "updateNotFound"}

\* all permutations of a finite set, as sequences
Perms(S) ==
  {s \in [1..Cardinality(S) -> S] :
     \A i, j \in 1..Cardinality(S) : i # j => s[i] # s[j]}

\* iplIndexer.ByIndex(owningAttachmentIdxName, name): the namespace is no
\* part of the index key
ByIndex(locks, name) ==
  {l \in locks : name \in SeqToSet(OwningAttachments(l))}

\* consider without the test of the owner's UID: a lock of another edition
\* of the attachment is classified as a lock of this one
considerAnyEdition(w, ipl) ==
  LET r == NewParsedLock(ipl)
      parsed == r.ans
      statusLockUID == IF w.att = NoAtt THEN NoneUID ELSE w.att.lockUID
      w1 == [w EXCEPT !.considered = @ \cup {parsed.addrU}]
  IN IF r.err THEN w
     ELSE IF parsed.VNI # w.desiredVNI \/ parsed.addrU < w.desiredBaseU
             \/ parsed.addrU > w.desiredLastU
     THEN [w1 EXCEPT !.undesiredLocks = Append(@, parsed)]
     ELSE [w1 EXCEPT
             !.lockInStatus =
                IF parsed.UID = statusLockUID /\ w.att # NoAtt
                   /\ w.att.ipv4 # NoIPStr
                   /\ w.att.ipv4 = IPString(GetIP(parsed))
                THEN parsed ELSE @,
             !.usableLocks = Append(@, parsed)]

\* the closure consider of analyzeAndRelease, applied to the local variables w
consider(w, ipl) ==
  LET r == NewParsedLock(ipl)
      parsed == r.ans
      ownerUID == GetOwner(ipl, "NetworkAttachment").uid
      statusLockUID == IF w.att = NoAtt THEN NoneUID ELSE w.att.lockUID
      w1 == [w EXCEPT !.considered = @ \cup {parsed.addrU}]
  IN IF r.err THEN w
     ELSE IF w.att # NoAtt /\ ownerUID # w.att.uid
     THEN [w1 EXCEPT !.timeSlippers = Append(@, parsed)]
     ELSE IF parsed.VNI # w.desiredVNI \/ parsed.addrU < w.desiredBaseU
             \/ parsed.addrU > w.desiredLastU
     THEN [w1 EXCEPT !.undesiredLocks = Append(@, parsed)]
     ELSE [w1 EXCEPT
             !.lockInStatus =
                IF parsed.UID = statusLockUID /\ w.att # NoAtt
                   /\ w.att.ipv4 # NoIPStr
                   /\ w.att.ipv4 = IPString(GetIP(parsed))
                THEN parsed ELSE @,
             !.usableLocks = Append(@, parsed)]

RECURSIVE considerAll(_, _)
considerAll(w, ownedObjs) ==
  IF Len(ownedObjs) = 0 THEN w
  ELSE considerAll(consider(w, ownedObjs[1]), Tail(ownedObjs))

\* the condition without the test of the subnet's resourceVersion
AnticipationInvalidWhateverSubnet(nadat, att, subnetRV) ==
  nadat # NoData
  /\ (\/ att = NoAtt
      \/ (/\ nadat.anticipatingResourceVersion # att.rv
          /\ nadat.anticipatedResourceVersion # att.rv))

\* a controller that never trusts what it anticipates
AnticipationNeverValid(nadat, att, subnetRV) == nadat # NoData

\* the condition under which analyzeAndRelease zeroes the anticipation
AnticipationInvalid(nadat, att, subnetRV) ==
  nadat # NoData
  /\ (\/ att = NoAtt
      \/ (/\ nadat.anticipatingResourceVersion # att.rv
          /\ nadat.anticipatedResourceVersion # att.rv)
      \/ nadat.anticipationSubnetRV # subnetRV)

\* the range pickAndLockAddress hands to PickAddress
PickRange(subnetBaseU, subnetLastU) ==
  IF subnetLastU - subnetBaseU >= ReserveThreshold
  THEN [min |-> subnetBaseU + 2, max |-> subnetLastU - 1]
  ELSE [min |-> subnetBaseU, max |-> subnetLastU]

(***************************************************************************)
(* A step of the worker computes a record L = [w, nadat, cache, how]: the  *)
(* local variables, the NetworkAttachmentData of the key, the address      *)
(* cache, and how the reconciliation returned ("" while it goes on).       *)
(***************************************************************************)
Returned(L, how) == [L EXCEPT !.how = how]

\* processNetworkAttachment after analyzeAndRelease returned ok: up to the
\* RPC it issues next
AfterRelease(L) ==
  LET w == L.w
  IN IF w.att = NoAtt
     THEN Returned([L EXCEPT !.nadat = NoData], "gone")
     ELSE IF w.lockInStatus.Obj # NilObj
     THEN Returned(L, "lockInStatus")
     ELSE IF w.lockForStatus.Obj # NilObj
     THEN IF GetIP(w.lockForStatus) = L.nadat.anticipatedIPv4
          THEN Returned(L, "anticipatedWithClue")
          ELSE [L EXCEPT !.w.pc = "update",
                         !.w.ipForStatusU = w.lockForStatus.addrU]
     ELSE IF L.nadat.anticipatedIPv4 # NilIP
     THEN Returned(L, "anticipated")
     ELSE LET rng == PickRange(w.desiredBaseU, w.desiredLastU)
              r == PickAddress(L.cache, w.desiredVNI, rng.min, rng.max)
          IN IF ~r.ok
             THEN Returned([L EXCEPT !.cache = r.cache], "noAddress")
             ELSE [L EXCEPT !.cache = r.cache, !.w.pc = "create",
                            !.w.ipForStatusU = r.addrU,
                            !.w.lockForStatus =
                               [ns |-> w.key[1],
                                name |-> makeIPLockName2(w.desiredVNI,
                                                         Uint32ToIPv4(r.addrU)),
                                VNI |-> w.desiredVNI, addrU |-> r.addrU,
                                UID |-> NoUID, CreationTime |-> 0,
                                Obj |-> NilObj]]

\* analyzeAndRelease from the anticipation check to the first Delete
Decide(L) ==
  LET w == L.w
      nadat == IF AnticipationInvalid(L.nadat, w.att, w.subnetRV)
               THEN zeroNadat ELSE L.nadat
      lockForStatus ==
        IF w.att # NoAtt /\ w.lockInStatus.Obj = NilObj /\ Len(w.usableLocks) > 0
        THEN Best(w.usableLocks) ELSE zeroParsedLock
      usableToRelease ==
        IF w.att = NoAtt THEN w.usableLocks
        ELSE IF w.lockInStatus.Obj # NilObj
        THEN RemFunc(w.usableLocks, w.lockInStatus)
        ELSE IF Len(w.usableLocks) > 0
        THEN RemFunc(w.usableLocks, lockForStatus)
        ELSE << >>
      locksToRelease == AddListFunc(w.undesiredLocks, usableToRelease)
      L1 == [L EXCEPT !.nadat = nadat,
                      !.w.lockForStatus = lockForStatus,
                      !.w.locksToRelease = locksToRelease,
                      !.w.pc = "release"]
  IN IF Len(locksToRelease) > 0 THEN L1 ELSE AfterRelease(L1)

(***************************************************************************)
(* The worker of controller c.                                             *)
(***************************************************************************)
\* What a step leaves behind: the local variables or, when the
\* reconciliation returned, processQueueItem (Forget, or AddRateLimited which
\* puts the key back) and the idle worker.
Commit(c, key, L, isBegin) ==
  LET tracked == isBegin \/ quiet = <<c, key, "run">>
  IN /\ wk' = [wk EXCEPT ![c] =
                 IF L.how = "" THEN L.w
                 ELSE IdleWk([key |-> key, how |-> L.how, ops |-> L.w.ops,
                              second |-> IF tracked THEN L.w.second ELSE "",
                              addrU |-> L.w.ipForStatusU, att |-> L.w.att,
                              lockInStatus |-> L.w.lockInStatus,
                              usableLocks |-> L.w.usableLocks,
                              undesiredLocks |-> L.w.undesiredLocks,
                              timeSlippers |-> L.w.timeSlippers,
                              lockForStatus |-> L.w.lockForStatus])]
     /\ atts' = [atts EXCEPT ![c][key] = L.nadat]
     /\ addrCache' = [addrCache EXCEPT ![c] = L.cache]
     /\ dirty' = [dirty EXCEPT ![c] =
                    LET q == IF isBegin THEN @ \ {key} ELSE @
                    IN IF L.how \in ErrReturns THEN QueueAdd(q, {key}) ELSE q]
     /\ quiet' = IF ~tracked THEN NoQuiet
                 ELSE IF L.how = "" THEN <<c, key, "run">>
                 ELSE IF L.how \in NilReturns THEN <<c, key, "done">>
                 ELSE NoQuiet

\* the state L of a step that starts from the worker's variables
Cur(c) == [w |-> wk[c], nadat |-> atts[c][wk[c].key], cache |-> addrCache[c],
           how |-> ""]

\* the status address as a number, when analyzeAndRelease must fetch its lock
StatusFetchNeeded(w) ==
  /\ w.att # NoAtt
  /\ w.att.ipv4 # NoIPStr
  /\ ParseIP(w.att.ipv4) # NilIP
  /\ IPv4ToUint32(ParseIP(w.att.ipv4)) \notin w.considered

\* a reading of analyzeAndRelease that zeroes the anticipation before it
\* looks for the subnet
DroppedZeroing(L) == Returned([L EXCEPT !.nadat = zeroNadat], "dropped")

\* analyzeAndRelease returns not ok and without error when the subnet is not
\* in the cache or its CIDR does not parse
Dropped(L) == Returned(L, "dropped")

\* processQueueItem, processNetworkAttachment and analyzeAndRelease up to the
\* first RPC: the reads of the informer caches
Begin(c, key) ==
  /\ c \in running
  /\ wk[c].pc = "idle"
  /\ key \in dirty[c]
  /\ passes[c] > 0
  /\ passes' = [passes EXCEPT ![c] = @ - 1]
  /\ LET att == attCache[c][key]
         nadat == IF atts[c][key] = NoData /\ att # NoAtt THEN zeroNadat
                  ELSE atts[c][key]
         second == IF quiet = <<c, key, "done">> THEN wk[c].ret.how ELSE ""
         subnet == IF att # NoAtt /\ <<key[1], att.subnet>> \in SubnetKeys
                   THEN subnetCache[c][<<key[1], att.subnet>>] ELSE NoSubnet
         w0 == [IdleWk(wk[c].ret) EXCEPT
                  !.pc = "analyze", !.key = key, !.att = att, !.second = second]
         L0 == [w |-> w0, nadat |-> nadat, cache |-> addrCache[c], how |-> ""]
     IN IF att # NoAtt /\ (subnet = NoSubnet \/ ParseCIDR(subnet.ipv4).err)
        THEN Commit(c, key, Dropped(L0), TRUE)
        ELSE \E ownedObjs \in Perms(ByIndex(lockCache[c], key[2])) :
               LET b == IF att = NoAtt THEN [min |-> 0, max |-> 0]
                        ELSE IPNetToBoundsU(ParseCIDR(subnet.ipv4))
                   w1 == [w0 EXCEPT
                            !.subnetRV = IF att = NoAtt THEN DotRV ELSE subnet.rv,
                            !.desiredVNI = IF att = NoAtt THEN 0 ELSE subnet.vni,
                            !.desiredBaseU = b.min, !.desiredLastU = b.max]
                   w2 == considerAll(w1, ownedObjs)
                   L2 == [L0 EXCEPT !.w = w2]
               IN IF StatusFetchNeeded(w2)
                  THEN Commit(c, key, [L2 EXCEPT !.w.pc = "getStatusLock"], TRUE)
                  ELSE Commit(c, key, Decide(L2), TRUE)
  /\ UNCHANGED <<valVars, calcVars, ticks, running, storeAtts, storeLocks, storeSubnets, nextUID, attRVs, clock,
                 faults, envOps, attCache, lockCache, subnetCache, attQ, lockQ,
                 lockHist>>

\* analyzeAndRelease: the live Get of the lock of the address in the status
GetStatusLock(c) ==
  /\ wk[c].pc = "getStatusLock"
  /\ LET w == wk[c]
         antName == makeIPLockName2(w.desiredVNI, ParseIP(w.att.ipv4))
         found == LocksNamed(storeLocks, w.key[1], antName)
     IN \/ \E ipl \in found :
             /\ UNCHANGED faults
             /\ Commit(c, w.key,
                       Decide([Cur(c) EXCEPT !.w =
                                 IF GetOwner(ipl, "NetworkAttachment").name = w.key[2]
                                 THEN consider(w, ipl) ELSE w]),
                       FALSE)
        \/ /\ found = {}
           /\ UNCHANGED faults
           /\ Commit(c, w.key, Decide(Cur(c)), FALSE)
        \/ /\ found # {}
           /\ faults > 0
           /\ faults' = faults - 1
           /\ Commit(c, w.key,
                     Decide([Cur(c) EXCEPT !.w.ops = @ \cup {<<"Get", "error">>}]),
                     FALSE)
  /\ UNCHANGED <<valVars, calcVars, passes, ticks, running, storeAtts, storeLocks, storeSubnets, nextUID, attRVs, clock,
                 envOps, attCache, lockCache, subnetCache, attQ, lockQ, lockHist>>

\* an RPC, as the reconciliation remembers it (of the Gets, the failed ones)
Op(kind, res) == <<kind, res>>

\* a reading of deleteIPLockObject that takes every answer for success
DeleteNeverFails(res) == FALSE

\* deleteIPLockObject returns the error of a Delete that is neither NotFound
\* nor Gone
DeleteFails(res) == res \notin {"ok", "notFound", "gone"}

\* the release loop of analyzeAndRelease: deleteIPLockObject of the next lock
DeleteLock(c) ==
  /\ wk[c].pc = "release"
  /\ LET w == wk[c]
         parsed == w.locksToRelease[1]
         found == LocksNamed(storeLocks, parsed.ns, parsed.name)
         next(res) ==
           LET L1 == [Cur(c) EXCEPT
                        !.w.locksToRelease = Tail(@),
                        !.w.ops = @ \cup {Op("Delete", res)}]
           IN IF DeleteFails(res) THEN Returned(L1, "deleteFailed")
              ELSE IF Len(L1.w.locksToRelease) > 0 THEN L1
              ELSE AfterRelease(L1)
     IN \/ \E ipl \in found :
             /\ ipl.uid = parsed.UID
             /\ storeLocks' = storeLocks \ {ipl}
             /\ lockQ' = Broadcast(lockQ, "delete", ipl)
             /\ UNCHANGED faults
             /\ Commit(c, w.key, next("ok"), FALSE)
        \/ \E ipl \in found :
             /\ ipl.uid # parsed.UID
             /\ UNCHANGED <<storeLocks, lockQ, faults>>
             /\ Commit(c, w.key, next("conflict"), FALSE)
        \/ \E res \in {"notFound", "gone"} :
             /\ found = {}
             /\ UNCHANGED <<storeLocks, lockQ, faults>>
             /\ Commit(c, w.key, next(res), FALSE)
        \/ /\ faults > 0
           /\ faults' = faults - 1
           /\ UNCHANGED <<storeLocks, lockQ>>
           /\ Commit(c, w.key, next("error"), FALSE)
  /\ UNCHANGED <<valVars, calcVars, passes, ticks, running, storeAtts, storeSubnets, nextUID, attRVs, clock, envOps,
                 attCache, lockCache, subnetCache, attQ, lockHist>>

\* pickAndLockAddress after a Create that failed and was not AlreadyExists
CreateFailed(L, res) ==
  LET w == L.w
      L1 == [L EXCEPT !.cache = ReleaseAddress(@, w.desiredVNI, w.ipForStatusU)]
  IN IF res = "invalid" THEN [L1 EXCEPT !.w.pc = "update"]
     ELSE Returned(L1, "createFailed")

\* pickAndLockAddress: Create of the lock of the picked address
CreateLock(c) ==
  /\ wk[c].pc = "create"
  /\ LET w == wk[c]
         lockName == w.lockForStatus.name
         found == LocksNamed(storeLocks, w.key[1], lockName)
         ipl == [ns |-> w.key[1], name |-> lockName,
                 owners |-> <<[kind |-> "NetworkAttachment", name |-> w.key[2],
                               uid |-> w.att.uid, controller |-> "true"]>>,
                 uid |-> nextUID, ctime |-> clock]
         L1(res) == [Cur(c) EXCEPT !.w.ops = @ \cup {Op("Create", res)}]
     IN \/ /\ found = {}
           /\ nextUID <= MaxUID
           /\ storeLocks' = storeLocks \cup {ipl}
           /\ lockHist' = lockHist \cup {ipl}
           /\ nextUID' = nextUID + 1
           /\ lockQ' = Broadcast(lockQ, "create", ipl)
           /\ UNCHANGED faults
           /\ Commit(c, w.key,
                     [L1("ok") EXCEPT !.w.pc = "update",
                                      !.w.lockForStatus.UID = ipl.uid,
                                      !.w.lockForStatus.CreationTime = ipl.ctime,
                                      !.w.lockForStatus.Obj = ipl],
                     FALSE)
        \/ /\ found # {}
           /\ UNCHANGED <<storeLocks, lockHist, nextUID, lockQ, faults>>
           /\ Commit(c, w.key, [L1("alreadyExists") EXCEPT !.w.pc = "getExisting"],
                     FALSE)
        \/ \E res \in {"invalid", "error"} :
             /\ faults > 0
             /\ faults' = faults - 1
             /\ UNCHANGED <<storeLocks, lockHist, nextUID, lockQ>>
             /\ Commit(c, w.key, CreateFailed(L1(res), res), FALSE)
  /\ UNCHANGED <<valVars, calcVars, passes, ticks, running, storeAtts, storeSubnets, attRVs, clock, envOps, attCache,
                 lockCache, subnetCache, attQ>>

\* pickAndLockAddress releasing the address at a collision as it does after a
\* failed Create
ExistingFetchedReleasing(L, ipl2) ==
  LET w == L.w
      owner == GetOwner(ipl2, "NetworkAttachment")
  IN IF owner.name = w.key[2] /\ owner.uid = w.att.uid
     THEN [L EXCEPT !.w.pc = "update",
                    !.w.lockForStatus.UID = ipl2.uid,
                    !.w.lockForStatus.CreationTime = ipl2.ctime,
                    !.w.lockForStatus.Obj = ipl2]
     ELSE Returned([L EXCEPT !.cache =
                      ReleaseAddress(@, w.desiredVNI, w.ipForStatusU)],
                   "collision")

\* a reading of pickAndLockAddress that takes no existing lock for its own
ExistingNeverOurs(L, ipl2) == Returned(L, "collision")

\* pickAndLockAddress after AlreadyExists and a Get that returned the lock
ExistingFetched(L, ipl2) ==
  LET w == L.w
      owner == GetOwner(ipl2, "NetworkAttachment")
  IN IF owner.name = w.key[2] /\ owner.uid = w.att.uid
     THEN [L EXCEPT !.w.pc = "update",
                    !.w.lockForStatus.UID = ipl2.uid,
                    !.w.lockForStatus.CreationTime = ipl2.ctime,
                    !.w.lockForStatus.Obj = ipl2]
     ELSE Returned(L, "collision")

\* pickAndLockAddress: the Get after AlreadyExists
GetExisting(c) ==
  /\ wk[c].pc = "getExisting"
  /\ LET w == wk[c]
         found == LocksNamed(storeLocks, w.key[1], w.lockForStatus.name)
     IN \/ \E ipl2 \in found :
             /\ UNCHANGED faults
             /\ Commit(c, w.key, ExistingFetched(Cur(c), ipl2), FALSE)
        \/ /\ found = {}
           /\ UNCHANGED faults
           /\ Commit(c, w.key, [Cur(c) EXCEPT !.w.pc = "create"], FALSE)
        \/ /\ faults > 0
           /\ faults' = faults - 1
           /\ Commit(c, w.key, Returned(Cur(c), "getFailed"), FALSE)
  /\ UNCHANGED <<valVars, calcVars, passes, ticks, running, storeAtts, storeLocks, storeSubnets, nextUID, attRVs, clock,
                 envOps, attCache, lockCache, subnetCache, attQ, lockQ, lockHist>>

\* a reading of setIPInStatus that records no anticipation
StatusWrittenUnrecorded(L, att3) == Returned(L, "updated")

\* setIPInStatus after Update returned att3 without error
StatusWritten(L, att3) ==
  Returned([L EXCEPT !.nadat =
              [anticipatingResourceVersion |-> L.w.att.rv,
               anticipatedResourceVersion |-> att3.rv,
               anticipationSubnetRV |-> L.w.subnetRV,
               anticipatedIPv4 |-> Uint32ToIPv4(L.w.ipForStatusU)]],
           "updated")

\* setIPInStatus: Update of the attachment with the address in its status
UpdateStatus(c) ==
  /\ wk[c].pc = "update"
  /\ LET w == wk[c]
         att2 == [w.att EXCEPT !.lockUID = w.lockForStatus.UID,
                               !.addressVNI = w.lockForStatus.VNI,
                               !.ipv4 = IPString(Uint32ToIPv4(w.ipForStatusU))]
         cur == storeAtts[w.key]
         att3 == [att2 EXCEPT !.rv = attRVs[w.key] + 1]
         L1(res) == [Cur(c) EXCEPT !.w.ops = @ \cup {Op("Update", res)}]
     IN \/ /\ cur # NoAtt
           /\ cur.rv = w.att.rv
           /\ storeAtts' = [storeAtts EXCEPT ![w.key] = att3]
           /\ attRVs' = [attRVs EXCEPT ![w.key] = @ + 1]
           /\ attQ' = Broadcast(attQ, "update", [key |-> w.key, att |-> att3])
           /\ UNCHANGED faults
           /\ Commit(c, w.key, StatusWritten(L1("ok"), att3), FALSE)
        \/ /\ cur # NoAtt
           /\ cur.rv # w.att.rv
           /\ UNCHANGED <<storeAtts, attRVs, attQ, faults>>
           /\ Commit(c, w.key, Returned(L1("conflict"), "updateFailed"), FALSE)
        \/ /\ cur = NoAtt
           /\ UNCHANGED <<storeAtts, attRVs, attQ, faults>>
           /\ Commit(c, w.key, Returned(L1("notFound"), "updateNotFound"), FALSE)
        \/ /\ faults > 0
           /\ faults' = faults - 1
           /\ UNCHANGED <<storeAtts, attRVs, attQ>>
           /\ Commit(c, w.key, Returned(L1("error"), "updateFailed"), FALSE)
  /\ UNCHANGED <<valVars, calcVars, passes, ticks, running, storeLocks, storeSubnets, nextUID, clock, envOps, attCache,
                 lockCache, subnetCache, lockQ, lockHist>>

(***************************************************************************)
(* The specification of the IPAM controllers.                              *)
(***************************************************************************)
\* a step of the worker of c
Worker(c) ==
  \/ \E key \in AttKeys : Begin(c, key)
  \/ GetStatusLock(c)
  \/ DeleteLock(c)
  \/ CreateLock(c)
  \/ UpdateStatus(c)

Informers(c) == DeliverLock(c) \/ DeliverAtt(c)

Next ==
  \/ \E c \in Ctlrs : Worker(c)
  \/ \E c \in Ctlrs : Informers(c)
  \/ \E c \in Ctlrs, key \in AttKeys : ResyncAtt(c, key)
  \/ \E key \in AttKeys : EnvDeleteAtt(key)
  \/ \E ipl \in storeLocks : EnvGC(ipl)

Spec == Init /\ [][Next]_vars

NextRecovery ==
  \/ \E c \in Ctlrs : Worker(c)
  \/ \E c \in Ctlrs : Informers(c)
  \/ Tick

SpecRecovery == InitRecovery /\ [][NextRecovery]_vars

NextRace ==
  \/ \E c \in Ctlrs : Worker(c)
  \/ \E c \in Ctlrs : GetExisting(c)
  \/ \E c \in Ctlrs : Informers(c)

SpecRace == InitRace /\ [][NextRace]_vars

NextRaceFault ==
  \/ \E c \in Ctlrs, key \in AttKeys : Begin(c, key)
  \/ \E c \in Ctlrs : GetStatusLock(c)
  \/ \E c \in Ctlrs : CreateLock(c)
  \/ \E c \in Ctlrs : GetExisting(c)
  \/ \E c \in Ctlrs : UpdateStatus(c)
  \/ \E c \in Ctlrs : Informers(c)

SpecRaceFault == InitRaceFault /\ [][NextRaceFault]_vars

NextEditions ==
  \/ \E c \in Ctlrs : Worker(c)
  \/ \E c \in Ctlrs : Informers(c)
  \/ \E key \in AttKeys : EnvDeleteAtt(key)
  \/ \E key \in AttKeys : EnvCreateAtt(key)
  \/ \E ipl \in storeLocks : EnvGC(ipl)

SpecEditions == InitEditions /\ [][NextEditions]_vars

SpecEditionsRace == InitEditionsRace /\ [][NextRace]_vars

(***************************************************************************)
(* Lock names on their own: makeIPLockName2 and parseIPLockName applied to *)
(* arguments drawn from NameVNIs, NameOctets and OddNames.                 *)
(***************************************************************************)
\* the VNIs names are made of: the least, the greatest of VNIBits bits, and
\* some between
NameVNIs == {0, 1, 7, 1048576, 2 ^ VNIBits - 1}

\* the bytes addresses are made of
NameOctets == {0, 9, 255}

\* the first byte stays below 128: an address is an integer below 2^31 here
NameIPs == {ip \in [1..4 -> NameOctets \cup {127}] : ip[1] # 255}

\* names nobody made: a VNI of more than VNIBits bits, a byte of more than
\* OctetBits bits, a part too few or too many, another prefix, a part that is
\* no number
OddNames ==
  {<<V1, FormatUint(v), <<"0">>, <<"0">>, <<"1">>, FormatUint(b)>> :
     v \in {2 ^ VNIBits - 1, 2 ^ VNIBits, 2 ^ VNIBits + 1, 16777216},
     b \in {0, 255, 256}}
  \cup {<<V1, <<"7">>, <<"0">>, <<"0">>, <<"1">>>>,
        <<V1, <<"7">>, <<"0">>, <<"0">>, <<"1">>, <<"0">>, <<"0">>>>,
        <<<<"v", "2">>, <<"7">>, <<"0">>, <<"0">>, <<"1">>, <<"0">>>>,
        <<V1, <<"x">>, <<"0">>, <<"0">>, <<"1">>, <<"0">>>>,
        <<V1, << >>, <<"0">>, <<"0">>, <<"1">>, <<"0">>>>}

\* names nobody made that differ from made ones in leading zeros only
PaddedNames ==
  {<<V1, <<"0", "0", "7">>, <<"0">>, <<"0">>, <<"1">>, <<"0">>>>,
   <<V1, <<"7">>, <<"0">>, <<"0">>, <<"0", "1">>, <<"0">>>>,
   <<V1, <<"7">>, <<"0">>, <<"0">>, <<"1">>, <<"0", "0", "0">>>>,
   <<V1, <<"0">>, <<"0", "1", "2", "7">>, <<"0">>, <<"0">>, <<"9">>>>}

\* no controller runs; the arguments of one call are chosen
InitNames ==
  /\ InitWith({}, 0, 0, 0, 0, {})
  /\ InitValidator(0, 0)
  /\ calcOut = NoCalc
  /\ \/ \E v \in NameVNIs, ip \in NameIPs :
          calcIn = [op |-> "make", VNI |-> v, ip |-> ip, lockName |-> << >>]
     \/ \E n \in OddNames \cup PaddedNames :
          calcIn = [op |-> "parse", VNI |-> 0, ip |-> NilIP, lockName |-> n]

\* the call makeIPLockName2(VNI, ip)
MakeName ==
  /\ calcIn.op = "make"
  /\ calcOut = NoCalc
  /\ calcOut' = [lockName |-> makeIPLockName2(calcIn.VNI, calcIn.ip),
                 parsed |-> NoCalc, remade |-> NoCalc]
  /\ UNCHANGED <<ipamVars, valVars, calcIn>>

\* the call parseIPLockName(lockName) on the name just made or the name given
ParseName ==
  /\ \/ /\ calcIn.op = "parse"
        /\ calcOut = NoCalc
        /\ calcOut' = [lockName |-> calcIn.lockName,
                       parsed |-> parseIPLockName(calcIn.lockName),
                       remade |-> NoCalc]
     \/ /\ calcIn.op = "make"
        /\ calcOut # NoCalc
        /\ calcOut.parsed = NoCalc
        /\ calcOut' = [calcOut EXCEPT !.parsed = parseIPLockName(calcOut.lockName)]
  /\ UNCHANGED <<ipamVars, valVars, calcIn>>

\* the call makeIPLockName2(VNI, Uint32ToIPv4(addrU)) on what parseIPLockName
\* returned without error, as pickAndLockAddress names the lock of an address
RemakeName ==
  /\ calcOut # NoCalc
  /\ calcOut.parsed # NoCalc
  /\ ~calcOut.parsed.err
  /\ calcOut.remade = NoCalc
  /\ calcOut' = [calcOut EXCEPT
                   !.remade = makeIPLockName2(calcOut.parsed.VNI,
                                              Uint32ToIPv4(calcOut.parsed.addrU))]
  /\ UNCHANGED <<ipamVars, valVars, calcIn>>

NextNames == MakeName \/ ParseName \/ RemakeName

SpecNames == InitNames /\ [][NextNames]_vars

(***************************************************************************)
(* The election on its own: Best applied to lists of the locks of one      *)
(* attachment.  Locks are objects of the store: no two have the same UID,  *)
(* they may have the same creation time.                                   *)
(***************************************************************************)
\* the UIDs of the locks of an election
ElectUIDs == 3..(2 + MaxElectLocks)

\* the locks of ex/a1 with the UIDs of U, lock u on address 0.0.1.u, created
\* at the times t gives
ElectLocks(U, t) ==
  {NewParsedLock(NewLock(<<"ex", "a1">>, 1, 256 + u, u, t[u])).ans : u \in U}

\* no controller runs; a list of locks is chosen, in some order
InitElect ==
  /\ InitWith({}, 0, 0, 0, 0, {})
  /\ InitValidator(0, 0)
  /\ calcOut = NoCalc
  /\ \E U \in SUBSET ElectUIDs :
       \E t \in [U -> 1..MaxElectTime] :
         \E list \in Perms(ElectLocks(U, t)) :
           calcIn = [op |-> "elect", list |-> list]

\* the call list.Best()
Elect ==
  /\ calcIn.op = "elect"
  /\ calcOut = NoCalc
  /\ calcOut' = [best |-> Best(calcIn.list)]
  /\ UNCHANGED <<ipamVars, valVars, calcIn>>

NextElect == Elect

SpecElect == InitElect /\ [][NextElect]_vars

(***************************************************************************)
(* The event handlers and the address conversion on their own: what one    *)
(* invocation does with the object the informer delivers, or with the      *)
(* address gonet.ParseCIDR or gonet.ParseIP returned.                       *)
(***************************************************************************)
\* cache.DeletedFinalStateUnknown{Key, Obj}: what an informer delivers to its
\* delete handler when it missed the deletion and noticed it at a relist
Tombstone(obj) == [tombstone |-> TRUE, Obj |-> obj]

\* the type assertion obj.(*T) of a handler, on the delivered obj that is a
\* *T or a tombstone of one: FALSE is the run-time panic
TypeAsserts(obj) == "tombstone" \notin DOMAIN obj

\* gonet.IP.To4: the 4 bytes of a 4-byte address or of a 16-byte address
\* with the prefix of IPv4-mapped addresses, nil for another address
To4(ip) ==
  IF Len(ip) = 4 THEN ip
  ELSE IF /\ Len(ip) = 16
          /\ \A i \in 1..10 : ip[i] = 0
          /\ ip[11] = 255 /\ ip[12] = 255
  THEN SubSeq(ip, 13, 16)
  ELSE NilIP

\* IPv4ToUint32 indexes ip.To4() without a test: FALSE is the run-time panic
\* of indexing the nil slice
IPv4ToUint32Returns(ip) == To4(ip) # NilIP

\* the 16-byte form gonet.ParseIP returns for an IPv4 address
Mapped(ip4) == <<0, 0, 0, 0, 0, 0, 0, 0, 0, 0, 255, 255>> \o ip4

\* the addresses of parseable texts: 0.0.1.0 and 10.9.0.255 as ParseCIDR and
\* as ParseIP return them, and the IPv6 addresses ::1 and fd00::
ParsedIPs ==
  {<<0, 0, 1, 0>>, <<10, 9, 0, 255>>, Mapped(<<0, 0, 1, 0>>),
   Mapped(<<10, 9, 0, 255>>),
   <<0, 0, 0, 0, 0, 0, 0, 0, 0, 0, 0, 0, 0, 0, 0, 1>>,
   <<253, 0, 0, 0, 0, 0, 0, 0, 0, 0, 0, 0, 0, 0, 0, 0>>}

\* the locks an informer may deliver: locks of the attachments, with names
\* that parse and names that do not
NotifiedLocks ==
  {NewLock(k, u, a, 3, 1) : k \in AttKeys, u \in 1..2, a \in 256..257}
  \cup {[NewLock(<<"ex", "a1">>, 1, 256, 3, 1) EXCEPT !.name = n] :
          n \in {x \in OddNames : parseIPLockName(x).err}}
  \cup {[NewLock(<<"ex", "a1">>, 1, 257, 3, 1) EXCEPT !.owners = o] :
          o \in {<< >>,
                 <<[kind |-> "NetworkAttachment", name |-> "a1", uid |-> 1,
                    controller |-> "true"],
                   [kind |-> "NetworkAttachment", name |-> "a2", uid |-> 2,
                    controller |-> "true"]>>,
                 <<[kind |-> "NetworkAttachment", name |-> "a1", uid |-> 1,
                    controller |-> "false"],
                   [kind |-> "Pod", name |-> "a2", uid |-> 2,
                    controller |-> "true"]>>}}

\* the locks the controller knows when the notification arrives: none, or
\* the lock of ex/a2 on 0.0.1.0
NotifyPreLocks == {{}, {NewLock(<<"ex", "a2">>, 2, 256, 3, 1)}}

\* the subnets an informer may deliver
NotifiedSubnets == {[key |-> k, subnet |-> InitSubnets[k]] : k \in SubnetKeys}

\* the handlers whose notification may be a tombstone
DeleteHandlers == {"OnLockDelete", "OnSubnetDelete"}

\* one controller runs and is idle; one notification or one address is chosen
InitNotify ==
  /\ \E pre \in NotifyPreLocks :
       InitOf({"c1"}, 0, 0, 0, 0, pre, InitAtts, InitSubnets, {})
  /\ InitValidator(0, 0)
  /\ calcOut = NoCalc
  /\ \/ \E h \in {"OnLockCreate", "OnLockUpdate", "OnLockDelete"},
            l \in NotifiedLocks :
          \/ calcIn = [op |-> h, obj |-> l]
          \/ h \in DeleteHandlers /\ calcIn = [op |-> h, obj |-> Tombstone(l)]
     \/ \E h \in {"OnSubnetCreate", "OnSubnetUpdate", "OnSubnetDelete"},
            sn \in NotifiedSubnets :
          \/ calcIn = [op |-> h, obj |-> sn]
          \/ h \in DeleteHandlers /\ calcIn = [op |-> h, obj |-> Tombstone(sn)]
     \/ \E ip \in ParsedIPs : calcIn = [op |-> "IPv4ToUint32", obj |-> ip]

\* OnSubnetCreate, OnSubnetUpdate and OnSubnetDelete after their type
\* assertion: OnSubnetNotify queues the attachments the index gives for the
\* name of the subnet
OnSubnetNotify(c, sn) ==
  dirty' = [dirty EXCEPT ![c] =
              QueueAdd(@, {k \in AttKeys : /\ attCache[c][k] # NoAtt
                                           /\ attCache[c][k].subnet = sn.key[2]})]

\* one invocation of a lock handler of controller c
NotifyLock(c) ==
  /\ calcOut = NoCalc
  /\ calcIn.op \in {"OnLockCreate", "OnLockUpdate", "OnLockDelete"}
  /\ IF ~TypeAsserts(calcIn.obj)
     THEN /\ calcOut' = [outcome |-> "panic"]
          /\ UNCHANGED <<addrCache, dirty>>
     ELSE /\ OnLockNotify(c, calcIn.obj, calcIn.op # "OnLockDelete")
          /\ calcOut' = [outcome |-> IF parseIPLockName(calcIn.obj.name).err
                                     THEN "dropped" ELSE "queued"]
  /\ UNCHANGED <<valVars, calcIn, passes, ticks, running, storeAtts, storeLocks,
                 storeSubnets, nextUID, attRVs, clock, faults, envOps, attCache,
                 lockCache, subnetCache, attQ, lockQ, atts, wk, lockHist, quiet>>

\* one invocation of a subnet handler of controller c
NotifySubnet(c) ==
  /\ calcOut = NoCalc
  /\ calcIn.op \in {"OnSubnetCreate", "OnSubnetUpdate", "OnSubnetDelete"}
  /\ IF ~TypeAsserts(calcIn.obj)
     THEN /\ calcOut' = [outcome |-> "panic"]
          /\ UNCHANGED dirty
     ELSE /\ OnSubnetNotify(c, calcIn.obj)
          /\ calcOut' = [outcome |-> "queued"]
  /\ UNCHANGED <<valVars, calcIn, passes, ticks, running, storeAtts, storeLocks,
                 storeSubnets, nextUID, attRVs, clock, faults, envOps, attCache,
                 lockCache, subnetCache, attQ, lockQ, addrCache, atts, wk,
                 lockHist, quiet>>

\* one call of IPv4ToUint32 by a reconciliation
Convert ==
  /\ calcOut = NoCalc
  /\ calcIn.op = "IPv4ToUint32"
  /\ calcOut' = IF IPv4ToUint32Returns(calcIn.obj)
                THEN [outcome |-> "returned",
                      addrU |-> IPv4ToUint32(To4(calcIn.obj))]
                ELSE [outcome |-> "panic"]
  /\ UNCHANGED <<ipamVars, valVars, calcIn>>

NextNotify ==
  \/ \E c \in running : NotifyLock(c)
  \/ \E c \in running : NotifySubnet(c)
  \/ Convert

SpecNotify == InitNotify /\ [][NextNotify]_vars

NextBlocks ==
  \/ \E c \in Ctlrs, key \in AttKeys : Begin(c, key)
  \/ \E c \in Ctlrs : GetStatusLock(c)
  \/ \E c \in Ctlrs : CreateLock(c)
  \/ \E c \in Ctlrs : UpdateStatus(c)
  \/ \E c \in Ctlrs : Informers(c)

SpecBlocks == InitBlocks /\ [][NextBlocks]_vars

(***************************************************************************)
(* Subnets that change under the controller.                               *)
(***************************************************************************)
\* the blocks a user gives the subnet: 0.0.1.0/31 and 0.0.1.2/31
SubnetBlocks == {256, 258}

\* a user or the validator updates the subnet key: the store gives it a new
\* resourceVersion; the block stays or changes
EnvUpdateSubnet(key) ==
  /\ envOps > 0
  /\ storeSubnets[key] # NoSubnet
  /\ \E addr \in SubnetBlocks :
       storeSubnets' = [storeSubnets EXCEPT ![key].rv = @ + 1,
                                            ![key].ipv4.addr = addr]
  /\ envOps' = envOps - 1
  /\ quiet' = NoQuiet
  /\ UNCHANGED <<valVars, calcVars, passes, ticks, running, storeAtts, storeLocks,
                 nextUID, attRVs, clock, faults, attCache, lockCache, subnetCache,
                 attQ, lockQ, addrCache, atts, dirty, wk, lockHist>>

\* a user deletes the subnet key
EnvDeleteSubnet(key) ==
  /\ envOps > 0
  /\ storeSubnets[key] # NoSubnet
  /\ storeSubnets' = [storeSubnets EXCEPT ![key] = NoSubnet]
  /\ envOps' = envOps - 1
  /\ quiet' = NoQuiet
  /\ UNCHANGED <<valVars, calcVars, passes, ticks, running, storeAtts, storeLocks,
                 nextUID, attRVs, clock, faults, attCache, lockCache, subnetCache,
                 attQ, lockQ, addrCache, atts, dirty, wk, lockHist>>

\* the subnet informer of c catches up with the store on the subnet key:
\* cache, then OnSubnetUpdate or OnSubnetDelete
DeliverSubnet(c, key) ==
  /\ c \in running
  /\ subnetCache[c][key] # storeSubnets[key]
  /\ subnetCache' = [subnetCache EXCEPT ![c][key] = storeSubnets[key]]
  /\ OnSubnetNotify(c, [key |-> key])
  /\ quiet' = NoQuiet
  /\ UNCHANGED <<valVars, calcVars, passes, ticks, running, storeAtts, storeLocks,
                 storeSubnets, nextUID, attRVs, clock, faults, envOps, attCache,
                 lockCache, attQ, lockQ, addrCache, atts, wk, lockHist>>

\* one controller, a store without locks and without faults whose subnets
\* change; ex/a1 is on the work queue
InitSubnetEnv ==
  /\ InitOf({"c1"}, 0, MaxSubnetEnv, 0, MaxPasses, {}, InitAtts, InitSubnets,
            {<<"ex", "a1">>})
  /\ InitValidator(0, 0)
  /\ InitCalc

NextSubnetEnv ==
  \/ \E c \in Ctlrs : Worker(c)
  \/ \E c \in Ctlrs : Informers(c)
  \/ \E c \in Ctlrs, key \in SubnetKeys : DeliverSubnet(c, key)
  \/ \E key \in SubnetKeys : EnvUpdateSubnet(key)
  \/ \E key \in SubnetKeys : EnvDeleteSubnet(key)

SpecSubnetEnv == InitSubnetEnv /\ [][NextSubnetEnv]_vars

(***************************************************************************)
(* The create loop of pickAndLockAddress beside another client of the      *)
(* store that creates and deletes locks on the addresses of subnet ex/s1.  *)
(***************************************************************************)
\* reconciliations the controller starts in one behaviour
LoopPasses == 2
\* notifications of locks a controller has not yet been delivered
MaxLockQ == 2

\* The UID of the locks of the other client. The store gives every lock a
\* fresh UID; the controller reads the UID of a lock only when its Get
\* returns the lock, and then it compares the owner, so all the locks of the
\* other client carry one UID that the store hands to no other object.
OtherUID == MaxUID + 1

\* the lock another controller holds on address addrU for attachment ex/a2
OtherLock(addrU) == NewLock(<<"ex", "a2">>, 2, addrU, OtherUID, clock)

\* the addresses of the block of subnet ex/s1
LoopAddrs == {256, 257}

\* another client creates the lock of addrU
OtherCreate(addrU) ==
  /\ LocksNamed(storeLocks, "ex", OtherLock(addrU).name) = {}
  /\ \A c \in running : Len(lockQ[c]) < MaxLockQ
  /\ storeLocks' = storeLocks \cup {OtherLock(addrU)}
  /\ lockHist' = lockHist \cup {OtherLock(addrU)}
  /\ lockQ' = Broadcast(lockQ, "create", OtherLock(addrU))
  /\ quiet' = NoQuiet
  /\ UNCHANGED <<valVars, calcVars, passes, ticks, running, storeAtts, storeSubnets, nextUID, attRVs, clock, faults, envOps,
                 attCache, lockCache, subnetCache, attQ, addrCache, atts, dirty, wk>>

\* the other client deletes a lock it created
OtherDelete(ipl) ==
  /\ ipl \in storeLocks
  /\ ipl.uid = OtherUID
  /\ \A c \in running : Len(lockQ[c]) < MaxLockQ
  /\ storeLocks' = storeLocks \ {ipl}
  /\ lockQ' = Broadcast(lockQ, "delete", ipl)
  /\ quiet' = NoQuiet
  /\ UNCHANGED <<valVars, calcVars, passes, ticks, running, storeAtts, storeSubnets, nextUID, attRVs, clock, faults, envOps,
                 attCache, lockCache, subnetCache, attQ, addrCache, atts, dirty, wk, lockHist>>

\* one controller, a store without locks and without faults
InitLoop ==
  /\ InitWith({"c1"}, 0, 0, 0, LoopPasses, {})
  /\ InitValidator(0, 0) /\ InitCalc

NextLoop ==
  \/ \E key \in AttKeys : Begin("c1", key)
  \/ CreateLock("c1")
  \/ GetExisting("c1")
  \/ UpdateStatus("c1")
  \/ Informers("c1")
  \/ \E addrU \in LoopAddrs : OtherCreate(addrU)
  \/ \E ipl \in storeLocks : OtherDelete(ipl)

SpecLoop == InitLoop /\ [][NextLoop]_vars

\* Every RPC of the worker returns: a Create or a Get that the worker has
\* issued is answered. Nothing is assumed of the other client.
SpecLoopFair ==
  /\ SpecLoop
  /\ WF_vars(CreateLock("c1"))
  /\ WF_vars(GetExisting("c1"))

(***************************************************************************)
(* The contracts of the IPAM controller.                                   *)
(***************************************************************************)
\* the attachment of key exists in the store
Alive(key) == storeAtts[key] # NoAtt

\* the status of att carries an address
HasAddress(att) == att.ipv4 # NoIPStr

\* lock l has a controller owner reference to the attachment key of UID uid
OwnedBy(l, key, uid) ==
  /\ l.ns = key[1]
  /\ GetOwner(l, "NetworkAttachment") = [name |-> key[2], uid |-> uid]

\* the name of lock l encodes the address ipStr of VNI vni
LockEncodes(l, vni, ipStr) == l.name = makeIPLockName2(vni, ParseIP(ipStr))

\* lock l is the lock the status of the attachment att of key names
StatusLock(l, key, att) ==
  /\ l.uid = att.lockUID
  /\ LockEncodes(l, att.addressVNI, att.ipv4)
  /\ OwnedBy(l, key, att.uid)

\* every notification is delivered, every work queue is empty, every worker
\* is idle
Quiescent ==
  \A c \in running :
    /\ attQ[c] = << >>
    /\ lockQ[c] = << >>
    /\ dirty[c] = {}
    /\ wk[c].pc = "idle"

\* C1 (I3): in every reachable state no two distinct attachments with an
\* address in their status have the same pair (status.addressVNI, status.ipv4).
C1_NoSharedAddress ==
  \A k1 \in AttKeys, k2 \in AttKeys :
    (k1 # k2 /\ Alive(k1) /\ Alive(k2)
       /\ HasAddress(storeAtts[k1]) /\ HasAddress(storeAtts[k2]))
    => <<storeAtts[k1].addressVNI, storeAtts[k1].ipv4>>
         # <<storeAtts[k2].addressVNI, storeAtts[k2].ipv4>>

\* C2: whenever a status with an address is in the store, status.lockUID is
\* the UID of a lock that exists or existed, whose name encodes
\* (status.addressVNI, status.ipv4) and that the attachment's current UID owns.
C2_StatusNamesLock ==
  \A key \in AttKeys :
    (Alive(key) /\ HasAddress(storeAtts[key]))
    => \E l \in lockHist : StatusLock(l, key, storeAtts[key])

\* C3: when a reconciliation of key has just returned without error and the
\* attachment is alive, the store holds exactly one lock owned by the
\* attachment's current UID, and the status carries that lock's address.
C3_OneLockAfterSuccess ==
  \A c \in Ctlrs, key \in AttKeys :
    (quiet = <<c, key, "done">> /\ Alive(key))
    => LET att == storeAtts[key]
           owned == {l \in storeLocks : OwnedBy(l, key, att.uid)}
       IN /\ Cardinality(owned) = 1
          /\ HasAddress(att)
          /\ \A l \in owned : LockEncodes(l, att.addressVNI, att.ipv4)

\* the pickable block of the subnet has no address without a lock
Exhausted(subnet) ==
  LET b == IPNetToBoundsU(ParseCIDR(subnet.ipv4))
      rng == PickRange(b.min, b.max)
  IN \A a \in rng.min..rng.max :
       \E l \in storeLocks : l.name = makeIPLockName2(subnet.vni, Uint32ToIPv4(a))

\* the status of the attachment att of key is the one I5 asks for
Addressed(key, att, subnet) ==
  LET b == IPNetToBoundsU(ParseCIDR(subnet.ipv4))
      rng == PickRange(b.min, b.max)
  IN /\ HasAddress(att)
     /\ ParseIP(att.ipv4) # NilIP
     /\ IPv4ToUint32(ParseIP(att.ipv4)) \in rng.min..rng.max
     /\ att.addressVNI = subnet.vni
     /\ \E l \in storeLocks : StatusLock(l, key, att)

\* C6 (I5): once the notifications are delivered and the work queue is empty,
\* every attachment of an existing subnet has an address of the subnet's
\* pickable block in its status, with the subnet's VNI and the UID of an
\* existing lock of that address that it owns, unless the subnet is exhausted.
C6_QuiescentAddressed ==
  Quiescent =>
    \A key \in AttKeys :
      (Alive(key) /\ <<key[1], storeAtts[key].subnet>> \in SubnetKeys)
      => LET subnet == storeSubnets[<<key[1], storeAtts[key].subnet>>]
         IN Addressed(key, storeAtts[key], subnet) \/ Exhausted(subnet)

\* the addresses of VNI v that have a lock in the store
LockedAddresses(v) ==
  {parseIPLockName(l.name).addrU :
     l \in {x \in storeLocks : /\ ~parseIPLockName(x.name).err
                               /\ parseIPLockName(x.name).VNI = v}}

\* the worker of c has picked an address and its Create has not completed
InLockRPC(c) == wk[c].pc \in {"create", "getExisting"}

\* C4 (I2): whenever every lock notification of a controller is delivered and
\* its worker is not between a pick and the completion of the Create, its
\* address cache holds, for every VNI, exactly the addresses that have a lock
\* in the store.
C4_AddrCacheIsStore ==
  \A c \in running :
    (lockQ[c] = << >> /\ ~InLockRPC(c))
    => \A v \in VNIs : addrCache[c][v].set = LockedAddresses(v)

\* the write RPCs of kind among ops
OpsOf(ops, kind) == {o \in ops : o[1] = kind}

CollisionReturn(c) ==
  wk[c].pc = "getExisting" /\ wk'[c].pc = "idle" /\ wk'[c].ret.how = "collision"

\* the worker of c takes the step that picks an address, in the
\* reconciliation of the key whose last reconciliation ended with a collision
\* at an address that is still set in the address cache
PickAfterCollision(c) ==
  /\ wk[c].pc # "create"
  /\ wk'[c].pc = "create"
  /\ wk'[c].ret.how = "collision"
  /\ wk'[c].ret.key = wk'[c].key
  /\ wk'[c].ret.addrU \in addrCache[c][wk'[c].desiredVNI].set

\* a lock of the name the worker of c is about to create exists and is not
\* owned by the attachment of the worker
ForeignLockExists(c) ==
  \E l \in storeLocks :
    /\ SameLock(l, wk[c].key[1], wk[c].lockForStatus.name)
    /\ ~OwnedBy(l, wk[c].key, wk[c].att.uid)

\* C9: no two locks of one name ever exist; a Create of a name that a foreign
\* lock holds creates nothing and is answered AlreadyExists; when the Get
\* then shows the foreign owner the reconciliation returns an error, its key
\* is put back on the work queue and the address stays set in the address
\* cache; the next pick for that key returns another address.
C9_CollisionLosesAndMovesOn ==
  /\ [](\A l1 \in storeLocks, l2 \in storeLocks :
          SameLock(l1, l2.ns, l2.name) => l1 = l2)
  /\ [][\A c \in Ctlrs :
          (wk[c].pc = "create" /\ ForeignLockExists(c) /\ wk'[c] # wk[c])
          => (wk'[c].pc = "getExisting" /\ storeLocks' = storeLocks
              /\ <<"Create", "alreadyExists">> \in wk'[c].ops)]_vars
  /\ [][\A c \in Ctlrs :
          CollisionReturn(c)
          => (/\ ForeignLockExists(c)
              /\ wk'[c].ret.how \in ErrReturns
              /\ wk[c].key \in dirty'[c]
              /\ wk[c].ipForStatusU \in addrCache'[c][wk[c].desiredVNI].set
              /\ storeLocks' = storeLocks)]_vars
  /\ [][\A c \in Ctlrs :
          PickAfterCollision(c)
          => wk'[c].ipForStatusU # wk'[c].ret.addrU]_vars

\* a controller whose last reconciliation of a key ended with a collision
\* has picked another address for that key
C9_Witness ==
  \E c \in Ctlrs :
    /\ wk[c].pc = "create"
    /\ wk[c].ret.how = "collision"
    /\ wk[c].ret.key = wk[c].key
    /\ wk[c].ret.addrU \in addrCache[c][wk[c].desiredVNI].set
    /\ wk[c].ipForStatusU # wk[c].ret.addrU
    /\ \E c2 \in Ctlrs \ {c} : <<"Create", "ok">> \in wk[c2].ret.ops

\* the last reconciliation of c found its attachment without a lock matching
\* its status and with usable locks in the index
Recovering(c) ==
  /\ wk[c].pc = "idle"
  /\ wk[c].ret.att # NoAtt
  /\ wk[c].ret.lockInStatus.Obj = NilObj
  /\ Len(wk[c].ret.usableLocks) > 0

\* x is the best of list: none of list was created earlier, and of those
\* created at the same time none has a greater UID
IsElected(x, list) ==
  /\ \E i \in 1..Len(list) : list[i] = x
  /\ \A i \in 1..Len(list) :
       \/ list[i].CreationTime > x.CreationTime
       \/ (list[i].CreationTime = x.CreationTime /\ list[i].UID <= x.UID)

\* the status of the attachment key in the store is written from lock x
StatusFrom(key, x) ==
  /\ Alive(key)
  /\ storeAtts[key].ipv4 = IPString(GetIP(x))
  /\ storeAtts[key].addressVNI = x.VNI
  /\ storeAtts[key].lockUID = x.UID

DeletedBy(c, l) ==
  /\ wk[c].pc = "release"
  /\ wk'[c] # wk[c]
  /\ l \in storeLocks
  /\ l \notin storeLocks'

\* the UID of the controlling NetworkAttachment owner of a parsed lock
OwnerUID(parsed) == GetOwner(parsed.Obj, "NetworkAttachment").uid

\* the last reconciliation of c found its attachment in the cache together
\* with a lock that an attachment of another UID owns
Superseding(c) ==
  /\ wk[c].pc = "idle"
  /\ wk[c].ret.att # NoAtt
  /\ Len(wk[c].ret.timeSlippers) > 0

\* C11: a reconciliation that found its attachment never asks for the
\* deletion of a lock whose controlling owner has another UID than the
\* attachment, and none of its steps deletes such a lock; when it found a lock
\* of another edition and no usable lock, and it returns nil without
\* trusting an anticipation, it has created a lock owned by the
\* attachment's UID, distinct from the locks of the other edition, and written
\* the status from it.
C11_TimeSlippersSkipped ==
  /\ [](\A c \in Ctlrs :
          (wk[c].pc = "release" /\ wk[c].att # NoAtt)
          => \A i \in 1..Len(wk[c].locksToRelease) :
               OwnerUID(wk[c].locksToRelease[i]) = wk[c].att.uid)
  /\ [][\A c \in Ctlrs : \A l \in storeLocks :
          (DeletedBy(c, l) /\ wk[c].att # NoAtt)
          => GetOwner(l, "NetworkAttachment").uid = wk[c].att.uid]_vars
  /\ [](\A c \in Ctlrs :
          Superseding(c)
          => LET r == wk[c].ret
             IN /\ \A i \in 1..Len(r.timeSlippers) :
                     OwnerUID(r.timeSlippers[i]) # r.att.uid
                /\ (r.usableLocks = << >> /\ r.how \in NilReturns
                    /\ r.how # "anticipated")
                   => /\ r.how \in {"updated", "updateNotFound"}
                      /\ <<"Create", "ok">> \in r.ops
                      /\ r.lockForStatus.Obj \in lockHist
                      /\ OwnedBy(r.lockForStatus.Obj, r.key, r.att.uid)
                      /\ \A i \in 1..Len(r.timeSlippers) :
                           r.timeSlippers[i].Obj # r.lockForStatus.Obj
                      /\ (r.how = "updated" /\ Alive(r.key)
                          /\ storeAtts[r.key].uid = r.att.uid)
                         => StatusFrom(r.key, r.lockForStatus))

\* the reconciliation of the recreated ex/a1 skipped the lock of the first
\* edition, which is still in the store, created a lock and wrote the status
C11_Witness ==
  \E c \in Ctlrs :
    /\ Superseding(c)
    /\ wk[c].ret.key = <<"ex", "a1">>
    /\ wk[c].ret.att.uid # 1
    /\ wk[c].ret.how = "updated"
    /\ <<"Create", "ok">> \in wk[c].ret.ops
    /\ \E i \in 1..Len(wk[c].ret.timeSlippers) :
         /\ wk[c].ret.timeSlippers[i].Obj \in storeLocks
         /\ OwnedBy(wk[c].ret.timeSlippers[i].Obj, <<"ex", "a1">>, 1)

\* the number of addresses of the block of the reconciliation of c
BlockSize(c) == wk[c].desiredLastU - wk[c].desiredBaseU + 1

\* the pickable range of a block as B1 and B2 describe it
ReservedRange(base, last) ==
  IF last - base + 1 < 4 THEN [min |-> base, max |-> last]
  ELSE [min |-> base + 2, max |-> last - 1]

\* C12: when the reconciliation has picked an address, the range it handed to
\* PickAddress is the whole block when the block has fewer than 4 addresses
\* and the block without its first two and its last address otherwise, and
\* the picked address lies in that range: for a block of 4 or more addresses
\* it is not base, base+1 or last.
C12_ReservedNeverPicked ==
  \A c \in Ctlrs :
    wk[c].pc = "create"
    => LET base == wk[c].desiredBaseU
           last == wk[c].desiredLastU
       IN /\ PickRange(base, last) = ReservedRange(base, last)
          /\ wk[c].ipForStatusU \in base..last
          /\ BlockSize(c) >= 4 => wk[c].ipForStatusU \notin {base, base + 1, last}

\* the /30 block of the scenario: 0.0.1.0 .. 0.0.1.3
OnSlash30(key) ==
  /\ key[1] = "ex"
  /\ storeSubnets[<<"ex", "s1">>].ipv4.ones = 30

ReturnsNoAddress(c) ==
  /\ (wk'[c] # wk[c] \/ passes'[c] # passes[c])
  /\ wk'[c].pc = "idle"
  /\ wk'[c].ret.how = "noAddress"

\* the step is the one in which the reconciliation of c picks an address
Picks(c) == wk[c].pc # "create" /\ wk'[c].pc = "create"

\* the subnet of the attachments of namespace ns, as controller c caches it
CachedSubnet(c, ns) == subnetCache[c][<<ns, "s1">>]

\* the range pickAndLockAddress makes of the block of that subnet
CachedRange(c, ns) ==
  LET b == IPNetToBoundsU(ParseCIDR(CachedSubnet(c, ns).ipv4))
  IN PickRange(b.min, b.max)

\* the addresses the cache of c holds for the VNI of that subnet
CachedTaken(c, ns) ==
  IF addrCache[c][CachedSubnet(c, ns).vni].nil THEN {}
  ELSE addrCache[c][CachedSubnet(c, ns).vni].set

NameParsed == calcOut # NoCalc /\ calcOut.parsed # NoCalc

\* C14: the name made of a VNI of at most VNIBits bits and an IPv4 address
\* parses without error to that VNI and that address, the greatest VNI
\* included; a name whose VNI part is 2^VNIBits or more is rejected.
C14_NameRoundTrip ==
  /\ (NameParsed /\ calcIn.op = "make")
     => /\ ~calcOut.parsed.err
        /\ calcOut.parsed.VNI = calcIn.VNI
        /\ calcOut.parsed.addrU = IPv4ToUint32(calcIn.ip)
        /\ Uint32ToIPv4(calcOut.parsed.addrU) = calcIn.ip
  /\ (NameParsed /\ Len(calcOut.lockName) >= 2
      /\ Len(calcOut.lockName[2]) > 0
      /\ (\A i \in 1..Len(calcOut.lockName[2]) : IsDigit(calcOut.lockName[2][i]))
      /\ DigitsValue(calcOut.lockName[2]) >= 2 ^ VNIBits)
     => calcOut.parsed.err

\* the name of the greatest VNI and of an address whose bytes differ was made
\* and parsed
C14_Witness ==
  /\ NameParsed
  /\ calcIn.op = "make"
  /\ calcIn.VNI = 2 ^ VNIBits - 1
  /\ calcIn.ip = <<0, 9, 255, 0>>
  /\ calcOut.lockName = <<V1, <<"2", "0", "9", "7", "1", "5", "1">>, <<"0">>,
                          <<"9">>, <<"2", "5", "5">>, <<"0">>>>
  /\ calcOut.parsed = [err |-> FALSE, VNI |-> 2097151, addrU |-> 655104]

\* tok is a decimal numeral of a value below 2^bitSize
NumeralBelow(tok, bitSize) ==
  /\ Len(tok) > 0
  /\ \A i \in 1..Len(tok) : IsDigit(tok[i])
  /\ DigitsValue(tok) < 2 ^ bitSize

\* makeIPLockName2 was applied to what parseIPLockName returned
NameRemade == NameParsed /\ calcOut.remade # NoCalc

\* C22: parseIPLockName accepts a name only when it has the prefix v1, exactly
\* NameParts parts, a VNI below 2^VNIBits and bytes below 2^OctetBits; and the
\* name made of what it returns for an accepted name is that name, so that
\* no two accepted names denote the same VNI and address.
C22_CodecBijection ==
  /\ (NameParsed /\ ~calcOut.parsed.err)
     => /\ Len(calcOut.lockName) = NameParts
        /\ calcOut.lockName[1] = V1
        /\ NumeralBelow(calcOut.lockName[2], VNIBits)
        /\ \A i \in 3..NameParts : NumeralBelow(calcOut.lockName[i], OctetBits)
  /\ NameRemade => calcOut.remade = calcOut.lockName

\* the locks of the list of the election
Elected == SeqToSet(calcIn.list)

C17_NothingFatal == calcOut # NoCalc => calcOut.outcome # "panic"

\* the step is the return of a reconciliation of c that trusted the
\* anticipation: it found no lock for the status and an anticipated address
TrustsAnticipation(c) ==
  /\ (wk'[c] # wk[c] \/ passes'[c] # passes[c])
  /\ wk'[c].pc = "idle"
  /\ wk'[c].ret.how = "anticipated"

\* C20: when a reconciliation returns by trusting the anticipation, and the
\* store still holds the edition of the attachment it read, the store holds
\* a lock of that attachment whose name encodes the VNI of its subnet and the
\* anticipated address, and the status of the attachment in the store holds
\* that address.
C20_AnticipationSupported ==
  [][\A c \in Ctlrs :
       TrustsAnticipation(c)
       => LET key == wk'[c].ret.key
              att == wk'[c].ret.att
              ipStr == IPString(atts'[c][key].anticipatedIPv4)
              vni == subnetCache[c][<<key[1], att.subnet>>].vni
          IN /\ atts'[c][key].anticipatedIPv4 # NilIP
             /\ (Alive(key) /\ storeAtts[key].uid = att.uid)
                => /\ \E l \in storeLocks : /\ OwnedBy(l, key, att.uid)
                                            /\ LockEncodes(l, vni, ipStr)
                   /\ storeAtts[key].ipv4 = ipStr]_vars

\* C18: no step of a reconciliation of the key ns/name deletes a lock of
\* another namespace than ns (a lock and its owner share their namespace).
C18_NoDeleteInOtherNamespace ==
  [][\A c \in Ctlrs : \A l \in storeLocks :
       DeletedBy(c, l) => l.ns = wk[c].key[1]]_vars

\* C19: no step of a reconciliation that found its attachment absent from
\* the informer cache, which still shows it absent, deletes a lock whose
\* controlling owner is the edition of the attachment that the store holds.
C19_CurrentEditionLockKept ==
  [][\A c \in Ctlrs : \A l \in storeLocks :
       (DeletedBy(c, l) /\ wk[c].att = NoAtt
        /\ attCache[c][wk[c].key] = NoAtt)
       => ~(Alive(wk[c].key)
            /\ OwnedBy(l, wk[c].key, storeAtts[wk[c].key].uid))]_vars

(***************************************************************************)
(* The subnet validator.  Package subnet (Summary and its predicates) is    *)
(* not part of the sources at hand: its operators follow the words of the   *)
(* specification.                                                           *)
(***************************************************************************)
\* user actions on subnets in one behaviour
MaxVEnv == 3
\* keys the worker of the validator takes from its queue in one behaviour
MaxVPasses == 5

\* the VNIs and CIDR blocks users give their subnets: 0.0.1.0/30 holds
\* 0.0.1.2/31 and is disjoint from 0.0.1.4/31
SubnetVNIs == {20}
SubnetCIDRs ==
  {[ok |-> TRUE, addr |-> 256, ones |-> 30],
   [ok |-> TRUE, addr |-> 258, ones |-> 31],
   [ok |-> TRUE, addr |-> 260, ones |-> 31]}

\* subnet.NewSummary: (namespace, name, VNI, baseU, lastU)
NewSummary(key, s) ==
  LET n == ParseCIDR(s.ipv4)
      b == IPNetToBoundsU(n)
  IN [err |-> n.err,
      ss |-> [ns |-> key[1], name |-> key[2], VNI |-> s.vni,
              BaseU |-> b.min, LastU |-> b.max]]

\* Summary.CIDRConflict: same VNI, ranges overlap
CIDRConflict(a, b) ==
  a.VNI = b.VNI /\ a.BaseU <= b.LastU /\ b.BaseU <= a.LastU

\* Summary.NSConflict: same VNI, different namespace
NSConflict(a, b) == a.VNI = b.VNI /\ a.ns # b.ns

Conflict(a, b) == CIDRConflict(a, b) \/ NSConflict(a, b)

SameSubnetAs(a, b) == a.ns = b.ns /\ a.name = b.name

\* Summary.Contains, as updateConflictsCache uses it: the rivals are
\* harvested when the CIDR differs
Contains(a, b) == a.BaseU = b.BaseU /\ a.LastU = b.LastU

\* Summary.Equal
SummaryEqual(a, b) == a = b

\* a reading of updateConflictsCache that keeps the rivals whatever changed
updateConflictsCacheKeeping(c, ss) ==
  [c |-> [ownerSummary |-> ss,
          rivals |-> IF c = NoConflicts THEN << >> ELSE c.rivals],
   oldRivals |-> << >>]

\* Validator.updateConflictsCache: the new entry of s and its old rivals
updateConflictsCache(c, ss) ==
  IF c = NoConflicts
  THEN [c |-> [ownerSummary |-> ss, rivals |-> << >>], oldRivals |-> << >>]
  ELSE IF ss.VNI # c.ownerSummary.VNI \/ ~Contains(ss, c.ownerSummary)
  THEN [c |-> [ownerSummary |-> ss, rivals |-> << >>], oldRivals |-> c.rivals]
  ELSE [c |-> [ownerSummary |-> ss, rivals |-> c.rivals], oldRivals |-> << >>]

\* a reading of subnetIsStale that takes no resourceVersion for stale
subnetNeverStale(rvs, key, rv) == FALSE

\* Validator.subnetIsStale: the map holds rv for the subnet (the entry it
\* deletes otherwise is deleted by the caller in the model)
subnetIsStale(rvs, key, rv) == rvs[key] = rv

\* a reading of clearConflictsCache that returns no rival
clearConflictsCacheSilently(c) == << >>

\* Validator.clearConflictsCache: the rivals of the entry that is deleted
clearConflictsCache(c) == IF c = NoConflicts THEN << >> ELSE c.rivals

\* a reading of recordConflict that never fails: it enrols when it can
recordConflictUnchecked(conf, enroller, enrollee) ==
  LET key == <<enroller.ns, enroller.name>>
  IN [err |-> FALSE,
      conf |-> IF conf[key] = NoConflicts THEN conf
               ELSE [conf EXCEPT ![key].rivals =
                       Append(@, <<enrollee.ns, enrollee.name>>)]]

\* Validator.recordConflict on the conflicts map conf
recordConflict(conf, enroller, enrollee) ==
  LET key == <<enroller.ns, enroller.name>>
      c == conf[key]
  IN IF c = NoConflicts THEN [err |-> TRUE, conf |-> conf]
     ELSE IF ~SummaryEqual(enroller, c.ownerSummary)
     THEN [err |-> TRUE, conf |-> conf]
     ELSE [err |-> FALSE,
           conf |-> [conf EXCEPT ![key].rivals =
                       Append(@, <<enrollee.ns, enrollee.name>>)]]

RECURSIVE recordConflicts(_, _, _)
\* Validator.recordConflicts over the listed subnets prs (their keys, in the
\* order of the list), from the state r = [conf, msgs, found, err]
recordConflicts(candidate, prs, r) ==
  IF Len(prs) = 0 THEN r
  ELSE LET potentialRival == NewSummary(prs[1], vStore[prs[1]]).ss
       IN IF ~Conflict(potentialRival, candidate)
             \/ SameSubnetAs(potentialRival, candidate)
          THEN recordConflicts(candidate, Tail(prs), r)
          ELSE LET m1 == IF CIDRConflict(potentialRival, candidate)
                         THEN Append(r.msgs, <<"cidr", prs[1]>>) ELSE r.msgs
                   m2 == IF NSConflict(potentialRival, candidate)
                         THEN Append(m1, <<"ns", prs[1]>>) ELSE m1
                   rc == recordConflict(r.conf, potentialRival, candidate)
                   r1 == [conf |-> rc.conf, msgs |-> m2, found |-> TRUE,
                          err |-> rc.err]
               IN IF rc.err THEN r1
                  ELSE recordConflicts(candidate, Tail(prs), r1)

\* processQueueItem when processSubnet returned: AddRateLimited puts the key
\* back after an error
VReturn(q, key, how) == IF how = "error" THEN q \cup {key} ELSE q

\* a user creates the subnet key
VEnvCreate(key, vni, cidr) ==
  /\ vEnvOps > 0
  /\ vStore[key] = NoSubnet
  /\ LET obj == [vni |-> vni, ipv4 |-> cidr, rv |-> vNextRV,
                 validated |-> FALSE, errors |-> << >>]
     IN /\ vStore' = [vStore EXCEPT ![key] = obj]
        /\ vQ' = Append(vQ, [op |-> "add", key |-> key, obj |-> obj])
  /\ vNextRV' = vNextRV + 1
  /\ vEnvOps' = vEnvOps - 1
  /\ UNCHANGED <<ipamVars, calcVars, vPasses, vCache, vDirty, conflicts, staleRVs, vwk>>

\* a user changes the VNI or the CIDR of the subnet key; the status stays
VEnvUpdate(key, vni, cidr) ==
  /\ vEnvOps > 0
  /\ vStore[key] # NoSubnet
  /\ <<vni, cidr>> # <<vStore[key].vni, vStore[key].ipv4>>
  /\ LET obj == [vStore[key] EXCEPT !.vni = vni, !.ipv4 = cidr, !.rv = vNextRV]
     IN /\ vStore' = [vStore EXCEPT ![key] = obj]
        /\ vQ' = Append(vQ, [op |-> "update", key |-> key, obj |-> obj])
  /\ vNextRV' = vNextRV + 1
  /\ vEnvOps' = vEnvOps - 1
  /\ UNCHANGED <<ipamVars, calcVars, vPasses, vCache, vDirty, conflicts, staleRVs, vwk>>

\* a user deletes the subnet key
VEnvDelete(key) ==
  /\ vEnvOps > 0
  /\ vStore[key] # NoSubnet
  /\ vStore' = [vStore EXCEPT ![key] = NoSubnet]
  /\ vQ' = Append(vQ, [op |-> "delete", key |-> key, obj |-> vStore[key]])
  /\ vEnvOps' = vEnvOps - 1
  /\ UNCHANGED <<ipamVars, calcVars, vPasses, vNextRV, vCache, vDirty, conflicts, staleRVs, vwk>>

\* the subnet informer takes its next notification: cache, then OnAdd,
\* OnUpdate (which enqueues only when the IPv4 or the VNI changed) or OnDelete
VDeliver ==
  /\ vQ # << >>
  /\ LET ev == Head(vQ)
         oldS == vCache[ev.key]
     IN /\ vCache' = [vCache EXCEPT ![ev.key] =
                        IF ev.op = "delete" THEN NoSubnet ELSE ev.obj]
        /\ vDirty' =
             IF ev.op = "update" /\ oldS # NoSubnet
                /\ oldS.ipv4 = ev.obj.ipv4 /\ oldS.vni = ev.obj.vni
             THEN vDirty ELSE vDirty \cup {ev.key}
  /\ vQ' = Tail(vQ)
  /\ UNCHANGED <<ipamVars, calcVars, vPasses, vStore, vNextRV, vEnvOps, conflicts, staleRVs, vwk>>

\* VBegin without the latch of status.validated: a validated subnet is
\* validated again
VBeginUnlatched(key) ==
  /\ vwk.pc = "idle"
  /\ key \in vDirty
  /\ vPasses > 0
  /\ vPasses' = vPasses - 1
  /\ LET s == vCache[key]
         q == vDirty \ {key}
         r == NewSummary(key, s)
         u == updateConflictsCache(conflicts[key], r.ss)
     IN IF s = NoSubnet
        THEN /\ staleRVs' = [staleRVs EXCEPT ![key] = NoRV]
             /\ conflicts' = [conflicts EXCEPT ![key] = NoConflicts]
             /\ vDirty' = q \cup SeqToSet(clearConflictsCache(conflicts[key]))
             /\ vwk' = [VIdle EXCEPT !.how = "deleted"]
        ELSE IF r.err
        THEN /\ vDirty' = VReturn(q, key, "error")
             /\ vwk' = [VIdle EXCEPT !.how = "error"]
             /\ UNCHANGED <<staleRVs, conflicts>>
        ELSE IF subnetIsStale(staleRVs, key, s.rv)
        THEN /\ vDirty' = q
             /\ vwk' = [VIdle EXCEPT !.how = "stale"]
             /\ UNCHANGED <<staleRVs, conflicts>>
        ELSE /\ staleRVs' = [staleRVs EXCEPT ![key] = NoRV]
             /\ conflicts' = [conflicts EXCEPT ![key] = u.c]
             /\ vDirty' = q \cup SeqToSet(u.oldRivals)
             /\ vwk' = [VIdle EXCEPT !.pc = "list", !.key = key, !.s = s]
  /\ UNCHANGED <<ipamVars, calcVars, vStore, vNextRV, vEnvOps, vCache, vQ>>

\* processQueueItem and processSubnet up to the live List:
\* processDeletedSubnet, or processExistingSubnet through subnetIsStale,
\* updateConflictsCache and the latch of status.validated
VBegin(key) ==
  /\ vwk.pc = "idle"
  /\ key \in vDirty
  /\ vPasses > 0
  /\ vPasses' = vPasses - 1
  /\ LET s == vCache[key]
         q == vDirty \ {key}
         r == NewSummary(key, s)
         u == updateConflictsCache(conflicts[key], r.ss)
     IN IF s = NoSubnet
        THEN /\ staleRVs' = [staleRVs EXCEPT ![key] = NoRV]
             /\ conflicts' = [conflicts EXCEPT ![key] = NoConflicts]
             /\ vDirty' = q \cup SeqToSet(clearConflictsCache(conflicts[key]))
             /\ vwk' = [VIdle EXCEPT !.how = "deleted"]
        ELSE IF r.err
        THEN /\ vDirty' = VReturn(q, key, "error")
             /\ vwk' = [VIdle EXCEPT !.how = "error"]
             /\ UNCHANGED <<staleRVs, conflicts>>
        ELSE IF subnetIsStale(staleRVs, key, s.rv)
        THEN /\ vDirty' = q
             /\ vwk' = [VIdle EXCEPT !.how = "stale"]
             /\ UNCHANGED <<staleRVs, conflicts>>
        ELSE /\ staleRVs' = [staleRVs EXCEPT ![key] = NoRV]
             /\ conflicts' = [conflicts EXCEPT ![key] = u.c]
             /\ vDirty' = q \cup SeqToSet(u.oldRivals)
             /\ vwk' = IF s.validated THEN [VIdle EXCEPT !.how = "latched"]
                       ELSE [VIdle EXCEPT !.pc = "list", !.key = key, !.s = s]
  /\ UNCHANGED <<ipamVars, calcVars, vStore, vNextRV, vEnvOps, vCache, vQ>>

\* processExistingSubnet: the live List of the subnets of the VNI and
\* recordConflicts
VList ==
  /\ vwk.pc = "list"
  /\ LET candidate == NewSummary(vwk.key, vwk.s).ss
         listed == {k \in VKeys : /\ vStore[k] # NoSubnet
                                  /\ vStore[k].vni = candidate.VNI}
     IN \E prs \in Perms(listed) :
          LET r == recordConflicts(candidate, prs,
                                   [conf |-> conflicts, msgs |-> << >>,
                                    found |-> FALSE, err |-> FALSE])
          IN /\ conflicts' = r.conf
             /\ IF r.err
                THEN /\ vDirty' = VReturn(vDirty, vwk.key, "error")
                     /\ vwk' = [VIdle EXCEPT !.how = "error"]
                ELSE /\ vDirty' = vDirty
                     /\ vwk' = [vwk EXCEPT !.pc = "update",
                                           !.validated = ~r.found,
                                           !.msgs = r.msgs]
  /\ UNCHANGED <<ipamVars, calcVars, vPasses, vStore, vNextRV, vEnvOps, vCache, vQ, staleRVs>>

\* the answers of the server to an Update that it does not apply: a
\* rejection of the request (Invalid, Forbidden, BadRequest, ...) and a failure
\* of another kind
UpdateFaults == {"invalid", "failed"}

\* a reading of malformedRequest that takes no error for one
malformedNever(e) == FALSE

\* malformedRequest: the error is one a retry of the same request meets again
malformedRequest(e) == e = "invalid"

\* updateSubnetValidity: the Update of the subnet with the verdict, and
\* updateStaleRV with the resourceVersion the worker read
VUpdate ==
  /\ vwk.pc = "update"
  /\ LET live == vStore[vwk.key]
         sCopy == [vwk.s EXCEPT !.validated = vwk.validated,
                                !.errors = vwk.msgs, !.rv = vNextRV]
     IN \/ /\ faults' = faults
           /\ IF live # NoSubnet /\ live.rv = vwk.s.rv
              THEN /\ vStore' = [vStore EXCEPT ![vwk.key] = sCopy]
                   /\ vNextRV' = vNextRV + 1
                   /\ vQ' = Append(vQ, [op |-> "update", key |-> vwk.key, obj |-> sCopy])
                   /\ staleRVs' = [staleRVs EXCEPT ![vwk.key] = vwk.s.rv]
                   /\ vDirty' = vDirty
                   /\ vwk' = [VIdle EXCEPT !.how = "written", !.ans = "ok"]
              ELSE /\ vDirty' = VReturn(vDirty, vwk.key, "error")
                   /\ vwk' = [VIdle EXCEPT !.how = "error",
                                           !.ans = IF live = NoSubnet
                                                   THEN "notFound"
                                                   ELSE "conflict"]
                   /\ UNCHANGED <<vStore, vNextRV, vQ, staleRVs>>
        \/ /\ faults > 0
           /\ faults' = faults - 1
           /\ \E e \in UpdateFaults :
                IF malformedRequest(e)
                THEN /\ vDirty' = vDirty
                     /\ vwk' = [VIdle EXCEPT !.how = "rejected", !.ans = e]
                ELSE /\ vDirty' = VReturn(vDirty, vwk.key, "error")
                     /\ vwk' = [VIdle EXCEPT !.how = "error", !.ans = e]
           /\ UNCHANGED <<vStore, vNextRV, vQ, staleRVs>>
  /\ UNCHANGED <<ipamRest, calcVars, vPasses, vEnvOps, vCache, conflicts>>

\* no IPAM controller runs; the validator has synced with an empty store
InitV == InitWith({}, 0, 0, 0, 0, {}) /\ InitValidator(MaxVEnv, MaxVPasses) /\ InitCalc

NextV ==
  \/ \E key \in VSameNSKeys, vni \in SubnetVNIs, cidr \in SubnetCIDRs :
       VEnvCreate(key, vni, cidr)
  \/ \E key \in VSameNSKeys, vni \in SubnetVNIs, cidr \in SubnetCIDRs :
       VEnvUpdate(key, vni, cidr)
  \/ \E key \in VSameNSKeys : VEnvDelete(key)
  \/ VDeliver
  \/ \E key \in VKeys : VBegin(key)
  \/ VList
  \/ VUpdate

SpecV == InitV /\ [][NextV]_vars

\* the subnets are of two namespaces, and the server may fail MaxVFaults
\* Updates of the validator
MaxVFaults == 1

InitVFault ==
  /\ InitWith({}, MaxVFaults, 0, 0, 0, {})
  /\ InitValidator(MaxVEnv, MaxVPasses)
  /\ InitCalc

NextVFault ==
  \/ \E key \in VCrossNSKeys, vni \in SubnetVNIs, cidr \in SubnetCIDRs :
       VEnvCreate(key, vni, cidr)
  \/ \E key \in VCrossNSKeys, vni \in SubnetVNIs, cidr \in SubnetCIDRs :
       VEnvUpdate(key, vni, cidr)
  \/ \E key \in VCrossNSKeys : VEnvDelete(key)
  \/ VDeliver
  \/ \E key \in VKeys : VBegin(key)
  \/ VList
  \/ VUpdate

SpecVFault == InitVFault /\ [][NextVFault]_vars

(***************************************************************************)
(* The contracts of the subnet validator.                                   *)
(***************************************************************************)
\* the subnets the store holds
VAlive == {k \in VKeys : vStore[k] # NoSubnet}

\* the Summary of the stored subnet k
VSummary(k) == NewSummary(k, vStore[k]).ss

\* the stored subnets k1 and k2 break check (1) or check (2) of the validator
VRivals(k1, k2) == k1 # k2 /\ Conflict(VSummary(k1), VSummary(k2))

\* the validator has nothing left to do: no notification is on its way, its
\* queue is empty and its worker is between two keys
VQuiescent == vQ = << >> /\ vDirty = {} /\ vwk.pc = "idle"

\* C5 (I4), in the form that two subnets which both carry
\* status.validated = true never conflict: they neither share a VNI with
\* overlapping CIDRs nor share a VNI across namespaces.  I4 itself asks more
\* (no other subnet at all conflicts with a validated one), so every state
\* that breaks this breaks I4.
C5_ValidatedPairsConflictFree ==
  \A k1 \in VAlive, k2 \in VAlive :
    (vStore[k1].validated /\ vStore[k2].validated) => ~VRivals(k1, k2)

\* C7: a subnet that failed validation because of a conflict is validated
\* again once the conflict is gone.  Stated on the states in which the
\* validator has nothing left to do: there, a stored subnet whose status says
\* "not validated" and lists conflicts still has a rival in the store.
C7_RevalidatedWhenRivalGone ==
  VQuiescent =>
    \A k \in VAlive :
      (~vStore[k].validated /\ vStore[k].errors # << >>)
        => \E k2 \in VAlive : VRivals(k, k2)


\* C16: the worker lists the subnets of a VNI and writes a status only for a
\* subnet it read as not validated; the reconciliation of a subnet read as
\* validated returns at once and changes neither the store nor the
\* notifications; and no step turns status.validated of a stored subnet from
\* true to false while its VNI and its CIDR stay.
C16_ValidatedLatched ==
  /\ [](vwk.pc \in {"list", "update"} => ~vwk.s.validated)
  /\ [][(vwk.pc = "idle" /\ vPasses' # vPasses /\ vwk'.how = "latched")
        => /\ vwk'.pc = "idle"
           /\ vStore' = vStore
           /\ vQ' = vQ
           /\ vNextRV' = vNextRV]_vars
  /\ [][\A k \in VKeys :
          (/\ vStore[k] # NoSubnet /\ vStore'[k] # NoSubnet
           /\ vStore[k].validated
           /\ vStore'[k].vni = vStore[k].vni
           /\ vStore'[k].ipv4 = vStore[k].ipv4)
          => vStore'[k].validated]_vars

\* a reconciliation returned at the latch of a subnet that is validated in
\* the store
C16_Witness ==
  /\ vwk.pc = "idle"
  /\ vwk.how = "latched"
  /\ \E k \in VKeys : vStore[k] # NoSubnet /\ vStore[k].validated
                      /\ vCache[k] = vStore[k]

\* the step starts a reconciliation of the subnet key whose VNI or CIDR is no
\* longer the one of the summary the validator kept of it
SpecChangeSeen(key) ==
  /\ vwk.pc = "idle"
  /\ vPasses' # vPasses
  /\ vCache[key] # NoSubnet
  /\ conflicts[key] # NoConflicts
  /\ conflicts'[key] # NoConflicts
  /\ conflicts'[key].ownerSummary # conflicts[key].ownerSummary

\* C21: the reconciliation that follows a change of the VNI or of the CIDR of
\* a validated subnet goes on to the live list of the subnets of the VNI, from
\* which a fresh verdict is written.
C21_SpecChangeReopens ==
  [][\A key \in VKeys :
       (SpecChangeSeen(key) /\ vCache[key].validated)
       => (vwk'.pc = "list" /\ vwk'.key = key)]_vars

\* the step takes the reconciliation of c through the anticipation check of
\* analyzeAndRelease
PassesAnticipationCheck(c) ==
  \/ wk[c].pc = "getStatusLock" /\ wk'[c] # wk[c]
  \/ /\ wk[c].pc = "idle"
     /\ passes'[c] # passes[c]
     /\ wk'[c].pc # "getStatusLock"
     /\ ~(wk'[c].pc = "idle" /\ wk'[c].ret.how = "dropped")

\* the key and the attachment of the reconciliation of c after the step
KeyAfter(c) == IF wk'[c].pc = "idle" THEN wk'[c].ret.key ELSE wk'[c].key

AttAfter(c) == IF wk'[c].pc = "idle" THEN wk'[c].ret.att ELSE wk'[c].att

\* how the reconciliation of c returned in the step, "" when it goes on
HowAfter(c) == IF wk'[c].pc = "idle" THEN wk'[c].ret.how ELSE ""

\* the resourceVersion analyzeAndRelease read of the subnet of att
SubnetRVRead(c, key, att) ==
  IF wk[c].pc = "getStatusLock" THEN wk[c].subnetRV
  ELSE IF att = NoAtt THEN DotRV
  ELSE subnetCache[c][<<key[1], att.subnet>>].rv

\* the record nadat stands for what the attachment att and its subnet are now
AnticipationCurrent(nadat, att, subnetRV) ==
  /\ nadat # NoData
  /\ att # NoAtt
  /\ (\/ nadat.anticipatingResourceVersion = att.rv
      \/ nadat.anticipatedResourceVersion = att.rv)
  /\ nadat.anticipationSubnetRV = subnetRV

\* C23: the anticipation check leaves the record of the key as it is when
\* the attachment exists, its resourceVersion is the remembered pre-write or
\* post-write one and the resourceVersion of its subnet is the remembered one;
\* otherwise the record leaves the check with its four fields zero (or
\* the entry is removed, the attachment being gone), the reconciliation does
\* not return by trusting an anticipation, and it goes on to the release, to
\* the pick or to its regular end.
C23_AnticipationKeptOrZeroed ==
  [][\A c \in Ctlrs :
       PassesAnticipationCheck(c)
       => LET key == KeyAfter(c)
              att == AttAfter(c)
          IN IF AnticipationCurrent(atts[c][key], att, SubnetRVRead(c, key, att))
             THEN atts'[c][key] = atts[c][key]
             ELSE /\ atts'[c][key] \in {zeroNadat, NoData}
                  /\ atts'[c][key] = NoData => att = NoAtt
                  /\ \/ wk'[c].pc \in {"release", "create", "update"}
                     \/ HowAfter(c) \in {"gone", "lockInStatus", "noAddress"}]_vars

\* a reconciliation met an anticipation recorded for another resourceVersion
\* of the subnet, zeroed it and went on
C23_Witness ==
  \E c \in Ctlrs :
    /\ wk[c].pc # "idle"
    /\ wk[c].ret.how = "updated"
    /\ wk[c].ret.key = wk[c].key
    /\ wk[c].att # NoAtt
    /\ wk[c].att.rv = attRVs[wk[c].key]
    /\ wk[c].subnetRV > 1
    /\ atts[c][wk[c].key] = zeroNadat

\* the locks of list other than x
Others(list, x) == {list[i] : i \in {j \in 1..Len(list) : ~Equal(list[j], x)}}

\* C24: a reconciliation that found a usable lock matching the status (the UID
\* of status.lockUID, the address of status.ipv4) asks for the deletion of
\* every other usable lock and of every undesired lock and never of that lock,
\* issues no Create and no Update, and ends either at the lock in the status,
\* all those locks being gone from the store, or at a Delete that failed.
C24_StatusLockKept ==
  /\ [](\A c \in Ctlrs :
          (wk[c].pc # "idle" /\ wk[c].lockInStatus.Obj # NilObj)
          => /\ wk[c].pc = "release"
             /\ wk[c].att # NoAtt
             /\ wk[c].lockInStatus.UID = wk[c].att.lockUID
             /\ IPString(GetIP(wk[c].lockInStatus)) = wk[c].att.ipv4
             /\ \A i \in 1..Len(wk[c].locksToRelease) :
                  ~Equal(wk[c].locksToRelease[i], wk[c].lockInStatus)
             /\ OpsOf(wk[c].ops, "Delete") = {}
                => SeqToSet(wk[c].locksToRelease)
                     = Others(wk[c].usableLocks, wk[c].lockInStatus)
                         \cup SeqToSet(wk[c].undesiredLocks))
  /\ [][\A c \in Ctlrs : \A l \in storeLocks :
          (DeletedBy(c, l) /\ wk[c].lockInStatus.Obj # NilObj)
          => l # wk[c].lockInStatus.Obj]_vars
  /\ [](\A c \in Ctlrs :
          (wk[c].pc = "idle" /\ wk[c].ret.lockInStatus.Obj # NilObj)
          => LET r == wk[c].ret
             IN /\ r.how \in {"lockInStatus", "deleteFailed"}
                /\ OpsOf(r.ops, "Create") \cup OpsOf(r.ops, "Update") = {}
                /\ r.how = "lockInStatus"
                   => /\ \A x \in Others(r.usableLocks, r.lockInStatus) :
                           x.Obj \notin storeLocks
                      /\ \A x \in SeqToSet(r.undesiredLocks) :
                           x.Obj \notin storeLocks
                      /\ \A o \in OpsOf(r.ops, "Delete") :
                           o[2] \in {"ok", "notFound", "gone"})

\* a reconciliation kept the lock of the status, which is still in the store,
\* deleted another usable lock and an undesired one and returned
C24_Witness ==
  \E c \in Ctlrs :
    /\ wk[c].pc = "idle"
    /\ wk[c].ret.how = "lockInStatus"
    /\ wk[c].ret.lockInStatus.Obj \in storeLocks
    /\ Len(wk[c].ret.usableLocks) > 1
    /\ Len(wk[c].ret.undesiredLocks) > 0
    /\ <<"Delete", "ok">> \in wk[c].ret.ops

\* ---- C25: release happens before assignment ----

\* the release loop of c takes a step
ReleaseStep(c) == wk[c].pc = "release" /\ wk'[c] # wk[c]

\* the RPCs of the reconciliation of c after the step
OpsAfter(c) == IF wk'[c].pc = "idle" THEN wk'[c].ret.ops ELSE wk'[c].ops

\* the answers to a Delete that deleteIPLockObject takes for success
DeleteSuccesses == {"ok", "notFound", "gone"}

AbsentStep(c) ==
  /\ wk'[c] # wk[c]
  /\ wk[c].pc \in {"idle", "release"}
  /\ AttAfter(c) = NoAtt
  /\ wk[c].pc = "idle" => KeyAfter(c) # wk[c].key

\* C26: in a reconciliation whose attachment is absent from the informer
\* cache, analyzeAndRelease puts every usable lock (and every undesired one)
\* on the release list; no step of it issues a Create or a status Update,
\* adds a lock to the store or changes an attachment of the store; the
\* NetworkAttachmentData entry is removed in the step that returns nil, and
\* that step has only successful Deletes behind it and an empty release list;
\* while the loop runs and when a Delete fails an entry that was there is
\* still there, and the failed reconciliation has queued the key again.
C26_AbsentAttachment ==
  [][\A c \in Ctlrs :
       AbsentStep(c)
       => LET key == KeyAfter(c)
              how == HowAfter(c)
              w1 == wk'[c]
          IN /\ how \in {"", "gone", "deleteFailed"}
             /\ OpsOf(OpsAfter(c), "Create") = {}
             /\ OpsOf(OpsAfter(c), "Update") = {}
             /\ storeLocks' \subseteq storeLocks
             /\ storeAtts' = storeAtts
             /\ wk[c].pc = "idle" =>
                  IF how = ""
                  THEN /\ w1.pc = "release"
                       /\ SeqToSet(w1.usableLocks) \cup SeqToSet(w1.undesiredLocks)
                            = SeqToSet(w1.locksToRelease)
                       /\ {pl.Obj : pl \in SeqToSet(w1.locksToRelease)}
                            = ByIndex(lockCache[c], key[2])
                  ELSE /\ how = "gone"
                       /\ ByIndex(lockCache[c], key[2]) = {}
             /\ how = "" =>
                  /\ w1.pc = "release"
                  /\ atts[c][key] # NoData => atts'[c][key] # NoData
             /\ how = "gone" =>
                  /\ atts'[c][key] = NoData
                  /\ \A o \in OpsOf(OpsAfter(c), "Delete") : o[2] \in DeleteSuccesses
                  /\ wk[c].pc = "release" => Len(wk[c].locksToRelease) = 1
             /\ how = "deleteFailed" =>
                  /\ atts'[c][key] = atts[c][key]
                  /\ key \in dirty'[c]
             /\ atts'[c][key] \in {NoData, zeroNadat}]_vars

\* an attachment that had an entry and a lock is gone from the cache, and the
\* reconciliation has deleted its lock and removed the entry
C26_Witness ==
  \E c \in Ctlrs :
    /\ wk[c].pc = "idle"
    /\ wk[c].ret.how = "gone"
    /\ wk[c].ret.att = NoAtt
    /\ Op("Delete", "ok") \in wk[c].ret.ops
    /\ atts[c][wk[c].ret.key] = NoData
    /\ lockHist # {}

\* ---- C27: AlreadyExists and the lock turns out to be ours ----

\* the locks the Get after AlreadyExists of c can return
ExistingOf(c) ==
  LocksNamed(storeLocks, wk[c].key[1], wk[c].lockForStatus.name)

\* ipl2 is controlled by the attachment c is reconciling
OursOf(c, ipl2) ==
  LET owner == GetOwner(ipl2, "NetworkAttachment")
  IN owner.name = wk[c].key[2] /\ owner.uid = wk[c].att.uid

\* the reconciliation of c holds a lock it fetched after AlreadyExists
HoldsFetched(c) ==
  /\ wk[c].pc = "update"
  /\ Op("Create", "alreadyExists") \in wk[c].ops
  /\ Op("Create", "ok") \notin wk[c].ops
  /\ Op("Create", "invalid") \notin wk[c].ops

\* C27: when Create answered AlreadyExists and the Get returns a lock whose
\* controller owner is the attachment being reconciled (name and UID),
\* pickAndLockAddress returns without error, with the retrieved object as
\* lockForStatus and the picked address unchanged, and the reconciliation goes
\* on to setIPInStatus; the Update it issues there carries the UID of the
\* retrieved lock, the picked address and the VNI, and when the Update
\* succeeds the reconciliation returns nil.
C27_ExistingLockIsOurs ==
  [][\A c \in Ctlrs :
       /\ (wk[c].pc = "getExisting" /\ wk'[c] # wk[c] /\ faults' = faults
           /\ ExistingOf(c) # {} /\ \A ipl2 \in ExistingOf(c) : OursOf(c, ipl2))
            => /\ wk'[c].pc = "update"
               /\ wk'[c].lockForStatus.Obj \in ExistingOf(c)
               /\ wk'[c].lockForStatus.UID = wk'[c].lockForStatus.Obj.uid
               /\ wk'[c].lockForStatus.addrU = wk[c].ipForStatusU
               /\ wk'[c].ipForStatusU = wk[c].ipForStatusU
               /\ addrCache'[c] = addrCache[c]
       /\ (HoldsFetched(c) /\ wk'[c] # wk[c])
            => LET key == wk[c].key
                   lfs == wk[c].lockForStatus
               IN /\ lfs.Obj \in lockHist
                  /\ OursOf(c, lfs.Obj)
                  /\ lfs.UID = lfs.Obj.uid
                  /\ IF storeAtts'[key] # storeAtts[key]
                     THEN /\ storeAtts'[key].lockUID = lfs.Obj.uid
                          /\ storeAtts'[key].ipv4 = IPString(Uint32ToIPv4(wk[c].ipForStatusU))
                          /\ storeAtts'[key].addressVNI = wk[c].desiredVNI
                          /\ lfs.Obj.name = makeIPLockName2(wk[c].desiredVNI,
                                                           Uint32ToIPv4(wk[c].ipForStatusU))
                          /\ HowAfter(c) = "updated"
                     ELSE HowAfter(c) \in {"updateFailed", "updateNotFound"}]_vars

\* a controller was answered AlreadyExists, fetched the lock another
\* controller had made for the same attachment, and wrote its UID in the status
C27_Witness ==
  \E c \in Ctlrs :
    /\ wk[c].pc = "idle"
    /\ wk[c].ret.how = "updated"
    /\ Op("Create", "alreadyExists") \in wk[c].ret.ops
    /\ Op("Create", "ok") \notin wk[c].ret.ops
    /\ storeAtts[wk[c].ret.key] # NoAtt
    /\ storeAtts[wk[c].ret.key].lockUID = wk[c].ret.lockForStatus.UID
    /\ wk[c].ret.lockForStatus.Obj \in storeLocks

\* ---- C28: a Create that fails and is not AlreadyExists ----

\* addrU is taken in the address cache of c for vni
Taken(cache, vni, addrU) == ~cache[vni].nil /\ addrU \in cache[vni].set

\* C28: when the store answers the Create of a lock with an error that is not
\* AlreadyExists, the picked address is no longer taken in the address cache
\* after that step; when the error is Invalid the reconciliation does not
\* return an error (the key is forgotten, not retried); for any other error
\* the reconciliation returns the createFailed error in that step and the key
\* is queued again.
C28_CreateFailure ==
  [][\A c \in Ctlrs :
       /\ (wk[c].pc = "create" /\ wk'[c] # wk[c] /\ faults' # faults)
            => /\ Taken(addrCache[c], wk[c].desiredVNI, wk[c].ipForStatusU)
               /\ ~Taken(addrCache'[c], wk[c].desiredVNI, wk[c].ipForStatusU)
               /\ \/ /\ Op("Create", "error") \in OpsAfter(c)
                     /\ HowAfter(c) = "createFailed"
                     /\ wk[c].key \in dirty'[c]
                  \/ /\ Op("Create", "invalid") \in OpsAfter(c)
                     /\ HowAfter(c) \notin ErrReturns
       /\ (wk[c].pc # "idle" /\ wk'[c].pc = "idle"
           /\ Op("Create", "invalid") \in wk'[c].ret.ops)
            => wk'[c].ret.how \notin ErrReturns]_vars

\* ---- C29: when anticipation is recorded ----

\* the worker of c takes the step of setIPInStatus
UpdateStep(c) == wk[c].pc = "update" /\ wk'[c] # wk[c]

\* C29: the step of setIPInStatus records the anticipation (the attachment
\* resourceVersion before the write, the one the write returned, the subnet
\* resourceVersion and the address) when the Update succeeded, and leaves the
\* record as it was when the Update failed; no other step records an
\* anticipation; an Update answered NotFound returns nil, does not queue the
\* key and leaves the locks of the store alone; any other failed Update
\* returns the updateFailed error with the key queued again.
C29_AnticipationRecorded ==
  [][\A c \in Ctlrs :
       /\ UpdateStep(c) =>
            LET key == wk[c].key
                wrote == storeAtts'[key] # storeAtts[key]
            IN /\ storeLocks' = storeLocks
               /\ IF wrote
                  THEN /\ HowAfter(c) = "updated"
                       /\ atts'[c][key] =
                            [anticipatingResourceVersion |-> wk[c].att.rv,
                             anticipatedResourceVersion |-> storeAtts'[key].rv,
                             anticipationSubnetRV |-> wk[c].subnetRV,
                             anticipatedIPv4 |-> Uint32ToIPv4(wk[c].ipForStatusU)]
                       /\ storeAtts'[key].ipv4 = IPString(Uint32ToIPv4(wk[c].ipForStatusU))
                       /\ storeAtts[key] # NoAtt /\ storeAtts[key].rv = wk[c].att.rv
                       /\ dirty'[c] = dirty[c]
                  ELSE /\ atts'[c][key] = atts[c][key]
                       /\ IF storeAtts[key] = NoAtt /\ faults' = faults
                          THEN /\ HowAfter(c) = "updateNotFound"
                               /\ dirty'[c] = dirty[c]
                          ELSE /\ HowAfter(c) = "updateFailed"
                               /\ key \in dirty'[c]
       /\ \A key \in AttKeys :
            (atts'[c][key] # atts[c][key] /\ atts'[c][key] \notin {NoData, zeroNadat})
              => /\ UpdateStep(c)
                 /\ wk[c].key = key
                 /\ storeAtts'[key] # storeAtts[key]]_vars

\* the attachment was deleted while its reconciliation held a fresh lock: the
\* Update was answered NotFound, no anticipation is on record, the lock is
\* still in the store and the key is not queued
C29_Witness ==
  \E c \in Ctlrs :
    /\ wk[c].pc = "idle"
    /\ wk[c].ret.how = "updateNotFound"
    /\ Op("Create", "ok") \in wk[c].ret.ops
    /\ wk[c].ret.lockForStatus.Obj \in storeLocks
    /\ atts[c][wk[c].ret.key] = zeroNadat
    /\ wk[c].ret.key \notin dirty[c]

\* ---- C30: the subnet is missing from the informer cache ----

\* the subnet the lister of c returns for attachment att of namespace ns
SubnetListed(c, ns, att) ==
  IF <<ns, att.subnet>> \in SubnetKeys THEN subnetCache[c][<<ns, att.subnet>>]
  ELSE NoSubnet

\* c starts the reconciliation of an attachment it has in its cache whose
\* subnet it has not
SubnetMissingStep(c) ==
  /\ wk[c].pc = "idle"
  /\ wk'[c] # wk[c]
  /\ AttAfter(c) # NoAtt
  /\ SubnetListed(c, KeyAfter(c)[1], AttAfter(c)) = NoSubnet

\* C30: a reconciliation that finds the attachment but not its subnet in the
\* informer caches returns at once without error and without an RPC: no lock
\* leaves or enters the store, no attachment of the store changes, the address
\* cache is as it was, the anticipation of the attachment is as it was (an
\* attachment without an entry gets the empty one), and the key is out of the
\* queue.
C30_SubnetMissing ==
  [][\A c \in Ctlrs :
       SubnetMissingStep(c)
       => LET key == KeyAfter(c)
          IN /\ wk'[c].pc = "idle"
             /\ wk'[c].ret.how = "dropped"
             /\ "dropped" \notin ErrReturns
             /\ wk'[c].ret.ops = {}
             /\ storeLocks' = storeLocks
             /\ storeAtts' = storeAtts
             /\ addrCache' = addrCache
             /\ atts'[c][key] = IF atts[c][key] = NoData THEN zeroNadat
                                ELSE atts[c][key]
             /\ key \in dirty[c]
             /\ key \notin dirty'[c]]_vars

\* an attachment with an address on record was reconciled after its subnet
\* had left the cache: the reconciliation was dropped, the record and the lock
\* are still there
C30_Witness ==
  \E c \in Ctlrs :
    /\ wk[c].pc = "idle"
    /\ wk[c].ret.how = "dropped"
    /\ wk[c].ret.att # NoAtt
    /\ SubnetListed(c, wk[c].ret.key[1], wk[c].ret.att) = NoSubnet
    /\ atts[c][wk[c].ret.key] \notin {NoData, zeroNadat}
    /\ ByIndex(storeLocks, wk[c].ret.key[2]) # {}
    /\ wk[c].ret.key \notin dirty[c]

\* ---- C31: what a lock notification does ----

LockHandlers == {"OnLockCreate", "OnLockUpdate", "OnLockDelete"}

\* the lock a notification is about: the delivered object, or the object a
\* tombstone wraps
LockNotified(obj) == IF "tombstone" \in DOMAIN obj THEN obj.Obj ELSE obj

\* the addresses taken in an address cache, as pairs <<VNI, address>>
TakenIn(cache) == {va \in VNIs \X (256..257) : Taken(cache, va[1], va[2])}

\* a lock handler of c has run in this step
LockNotifiedStep(c) ==
  /\ c \in running
  /\ calcIn # NoCalc
  /\ calcIn.op \in LockHandlers
  /\ calcOut = NoCalc
  /\ calcOut' # NoCalc

\* C31: after the handler of a lock notification whose lock name decodes,
\* the address cache holds (VNI, address) when the notification was a create
\* or an update and does not hold it when it was a delete, every other
\* address is as before, and the queue has gained exactly the keys
\* (namespace of the lock, name) of the lock's controller owners of kind
\* NetworkAttachment; after the handler of a notification whose name does not
\* decode the address cache and the queue are as before.
C31_LockNotification ==
  [][\A c \in Ctlrs :
       LockNotifiedStep(c)
       => LET ipl == LockNotified(calcIn.obj)
              p == parseIPLockName(ipl.name)
              owners == {ipl.owners[i].name :
                           i \in {j \in 1..Len(ipl.owners) :
                                    /\ ipl.owners[j].kind = "NetworkAttachment"
                                    /\ ipl.owners[j].controller = "true"}}
          IN IF p.err
             THEN addrCache'[c] = addrCache[c] /\ dirty'[c] = dirty[c]
             ELSE /\ TakenIn(addrCache'[c]) =
                       IF calcIn.op = "OnLockDelete"
                       THEN TakenIn(addrCache[c]) \ {<<p.VNI, p.addrU>>}
                       ELSE TakenIn(addrCache[c]) \cup {<<p.VNI, p.addrU>>}
                  /\ dirty'[c] = dirty[c] \cup {<<ipl.ns, n>> : n \in owners}]_vars

\* ---- C32: processing a subnet that is absent from the informer cache ----

\* the worker of the validator takes a key from its queue in this step
VBeginStep == vwk.pc = "idle" /\ vPasses' # vPasses

\* the step processes key, which the informer cache does not hold
VProcessedAbsent(key) ==
  /\ VBeginStep
  /\ key \in vDirty
  /\ key \notin vDirty'
  /\ vCache[key] = NoSubnet

\* the rivals on record for key
VRivalsOf(key) ==
  IF conflicts[key] = NoConflicts THEN {} ELSE SeqToSet(conflicts[key].rivals)

\* C32: the reconciliation of a subnet that the informer cache does not hold
\* leaves no staleRVs entry and no conflicts-cache entry for it, queues
\* exactly the subnets that were in its rivals list, touches no other entry,
\* and ends without a List and without a write to the store; and a
\* reconciliation returns this way only for such a subnet.
C32_DeletedSubnet ==
  [][/\ \A key \in VKeys :
          VProcessedAbsent(key)
          => /\ staleRVs' = [staleRVs EXCEPT ![key] = NoRV]
             /\ conflicts' = [conflicts EXCEPT ![key] = NoConflicts]
             /\ vDirty' = (vDirty \ {key}) \cup VRivalsOf(key)
             /\ vwk'.pc = "idle"
             /\ vwk'.how = "deleted"
             /\ vStore' = vStore
             /\ vQ' = vQ
     /\ (VBeginStep /\ vwk'.how = "deleted")
          => \E key \in VKeys : VProcessedAbsent(key)]_vars

\* a subnet that had a rival on record was deleted and processed: its entries
\* are gone and the rival, whose verdict of conflict the cache holds and
\* which no user has touched since, is in the queue
C32_Witness ==
  \E key \in VKeys, rival \in VKeys :
    /\ vwk.pc = "idle" /\ vwk.how = "deleted"
    /\ vCache[key] = NoSubnet
    /\ conflicts[key] = NoConflicts
    /\ staleRVs[key] = NoRV
    /\ rival # key
    /\ rival \in vDirty
    /\ vEnvOps = 0
    /\ vQ = << >>
    /\ vCache[rival] # NoSubnet
    /\ vCache[rival] = vStore[rival]
    /\ vCache[rival].errors # << >>

\* ---- C33: the resourceVersions the validator takes for stale ----

\* the step processes key, which the informer cache holds
VProcessedExisting(key) ==
  /\ VBeginStep
  /\ key \in vDirty
  /\ key \notin vDirty'
  /\ vCache[key] # NoSubnet

\* C33: the step of a successful verdict write leaves in staleRVs the
\* resourceVersion the subnet had before the write, which is the one the
\* worker read; a reconciliation that reads the subnet at the resourceVersion
\* staleRVs holds for it ends in that step with staleRVs, the conflicts cache
\* and the store as they were, nothing queued, no List and no Update; a
\* reconciliation that reads the subnet at another resourceVersion leaves no
\* staleRVs entry for it and goes on to the conflicts cache and the latch.
C33_StaleResourceVersion ==
  [][/\ (vwk.pc = "update" /\ vwk' # vwk /\ vStore' # vStore)
          => /\ staleRVs' = [staleRVs EXCEPT ![vwk.key] = vStore[vwk.key].rv]
             /\ vwk.s.rv = vStore[vwk.key].rv
             /\ vStore'[vwk.key].rv # staleRVs'[vwk.key]
             /\ vwk'.how = "written"
     /\ \A key \in VKeys :
          VProcessedExisting(key)
          => IF staleRVs[key] = vCache[key].rv
             THEN /\ vwk'.pc = "idle" /\ vwk'.how = "stale"
                  /\ staleRVs' = staleRVs
                  /\ conflicts' = conflicts
                  /\ vDirty' = vDirty \ {key}
                  /\ vStore' = vStore /\ vQ' = vQ
             ELSE /\ staleRVs' = [staleRVs EXCEPT ![key] = NoRV]
                  /\ conflicts'[key] # NoConflicts
                  /\ conflicts'[key].ownerSummary = NewSummary(key, vCache[key]).ss
                  /\ \/ vwk'.pc = "list" /\ vwk'.key = key /\ vwk'.s = vCache[key]
                     \/ vwk'.pc = "idle" /\ vwk'.how = "latched"
     /\ (VBeginStep /\ vwk'.how = "stale")
          => \E key \in VKeys : /\ VProcessedExisting(key)
                                /\ staleRVs[key] = vCache[key].rv]_vars

\* the validator has written the verdict of a subnet and then processed it
\* again at the resourceVersion it had before the write: it stopped, and the
\* entry is still there
C33_Witness ==
  \E key \in VKeys :
    /\ vwk.pc = "idle" /\ vwk.how = "stale"
    /\ vCache[key] # NoSubnet
    /\ staleRVs[key] = vCache[key].rv
    /\ vStore[key] # NoSubnet
    /\ vStore[key].rv > staleRVs[key]
    /\ key \notin vDirty

\* ---- C34: the conflicts-cache entry of the subnet that is processed ----

\* summary a differs from summary b in VNI or in CIDR
SummaryDiffers(a, b) == a.VNI # b.VNI \/ a.BaseU # b.BaseU \/ a.LastU # b.LastU

VListStep == vwk.pc = "list" /\ vwk' # vwk

\* the subnets of the store that conflict with the candidate of the worker
VRivalsListed ==
  LET candidate == NewSummary(vwk.key, vwk.s).ss
  IN {k \in VKeys \ {vwk.key} :
        /\ vStore[k] # NoSubnet
        /\ vStore[k].vni = candidate.VNI
        /\ Conflict(NewSummary(k, vStore[k]).ss, candidate)}

\* the rivals whose conflicts-cache entry is absent or holds another summary
\* than the one of the subnet the List returned
VRivalsUnready ==
  {k \in VRivalsListed :
     \/ conflicts[k] = NoConflicts
     \/ conflicts[k].ownerSummary # NewSummary(k, vStore[k]).ss}

\* C35: when the live List returns a rival of the candidate whose
\* conflicts-cache entry is absent or holds a summary other than that of the
\* listed rival, the reconciliation returns an error in that step: the store
\* and staleRVs are as they were and the key is in the queue again; when
\* every rival has an entry with the summary of the listed rival, the
\* candidate is appended to the rivals list of each, no other entry changes,
\* and the reconciliation goes on to write the verdict.
C35_RecordConflict ==
  [][VListStep
     => IF VRivalsUnready # {}
        THEN /\ vwk'.pc = "idle" /\ vwk'.how = "error"
             /\ vStore' = vStore
             /\ vQ' = vQ
             /\ staleRVs' = staleRVs
             /\ vwk.key \in vDirty'
             /\ \A k \in VRivalsUnready : conflicts'[k] = conflicts[k]
        ELSE /\ vwk'.pc = "update" /\ vwk'.key = vwk.key
             /\ vwk'.validated = (VRivalsListed = {})
             /\ \A k \in VKeys :
                  conflicts'[k] =
                    IF k \in VRivalsListed
                    THEN [conflicts[k] EXCEPT !.rivals = Append(@, vwk.key)]
                    ELSE conflicts[k]
             /\ vDirty' = vDirty]_vars

\* a subnet was listed together with a rival the validator has no entry for:
\* the reconciliation returned an error, the subnet has no verdict and its key
\* is in the queue
C35_Witness ==
  \E key \in VKeys, rival \in VKeys :
    /\ rival # key
    /\ vwk.pc = "idle" /\ vwk.how = "error"
    /\ key \in vDirty
    /\ vStore[key] # NoSubnet /\ vStore[rival] # NoSubnet
    /\ vCache[key] = vStore[key]
    /\ ~vStore[key].validated /\ vStore[key].errors = << >>
    /\ conflicts[rival] = NoConflicts
    /\ conflicts[key] # NoConflicts
    /\ Conflict(NewSummary(rival, vStore[rival]).ss, NewSummary(key, vStore[key]).ss)

\* ---- C36: the verdict and the errors of its Update ----

\* the worker of the validator takes the step of the Update
VUpdateStep == vwk.pc = "update" /\ vwk' # vwk

\* the subnets of the store, other than the one of the worker, with its VNI
VOthersListed ==
  {k \in VKeys \ {vwk.key} : vStore[k] # NoSubnet /\ vStore[k].vni = vwk.s.vni}

\* those of them whose CIDR overlaps the CIDR of the subnet of the worker
VOverlapping ==
  LET mine == IPNetToBoundsU(ParseCIDR(vwk.s.ipv4))
  IN {k \in VOthersListed :
        LET its == IPNetToBoundsU(ParseCIDR(vStore[k].ipv4))
        IN mine.min <= its.max /\ its.min <= mine.max}

\* those of them of another namespace
VForeign == {k \in VOthersListed : k[1] # vwk.key[1]}

\* C36: when the live List of a reconciliation of a subnet that is not yet
\* validated returns without error, the verdict is validated exactly when
\* the store holds no other subnet of the same VNI whose CIDR overlaps or
\* whose namespace differs, and the messages are one for every overlapping
\* subnet and one for every subnet of another namespace; the Update that
\* succeeds writes that verdict and those messages and records the
\* resourceVersion the worker read; an Update the server rejects as
\* malformed ends the reconciliation with the key not put back and staleRVs
\* as they were; an Update that fails in another way puts the key back and
\* leaves staleRVs as they were.
C36_VerdictAndUpdateErrors ==
  [][/\ (VListStep /\ vwk'.pc = "update")
          => /\ ~vwk.s.validated
             /\ vwk'.validated = (VOverlapping \cup VForeign = {})
             /\ SeqToSet(vwk'.msgs) =
                  {<<"cidr", k>> : k \in VOverlapping}
                    \cup {<<"ns", k>> : k \in VForeign}
             /\ Len(vwk'.msgs) = Cardinality(VOverlapping) + Cardinality(VForeign)
     /\ VUpdateStep
          => /\ vwk'.pc = "idle"
             /\ IF vwk'.ans = "ok"
                THEN /\ vStore'[vwk.key].validated = vwk.validated
                     /\ vStore'[vwk.key].errors = vwk.msgs
                     /\ staleRVs'[vwk.key] = vwk.s.rv
                     /\ vDirty' = vDirty
                ELSE IF vwk'.ans = "invalid"
                THEN /\ vStore' = vStore
                     /\ staleRVs' = staleRVs
                     /\ vDirty' = vDirty
                     /\ vwk'.how # "error"
                ELSE /\ vStore' = vStore
                     /\ staleRVs' = staleRVs
                     /\ vwk.key \in vDirty'
                     /\ vwk'.how = "error"]_vars

\* a subnet was written a verdict of not validated with the two messages of
\* its rival of another namespace whose CIDR overlaps, and the resourceVersion
\* the worker read is in staleRVs
C36_Witness ==
  \E key \in VKeys, rival \in VKeys :
    /\ rival[1] # key[1]
    /\ vwk.pc = "idle" /\ vwk.how = "written" /\ vwk.ans = "ok"
    /\ vStore[key] # NoSubnet /\ vStore[rival] # NoSubnet
    /\ ~vStore[key].validated
    /\ vStore[key].errors = << <<"cidr", rival>>, <<"ns", rival>> >>
    /\ staleRVs[key] = vStore[key].rv - 1
    /\ vQ # << >> /\ vQ[Len(vQ)].key = key /\ vQ[Len(vQ)].obj = vStore[key]

\* ---- C37: the create loop of pickAndLockAddress ----

\* the worker of c is in the create loop of pickAndLockAddress
InCreateLoop(c) == wk[c].pc \in {"create", "getExisting"}

\* C37: a reconciliation that enters the create loop of pickAndLockAddress
\* leaves it, whatever the other clients of the store do to the lock: it
\* issues finitely many Creates.
C37_CreateLoopTerminates == InCreateLoop("c1") ~> ~InCreateLoop("c1")

====
